---- MODULE Spec2Model ----
(***************************************************************************)
(* A verification model of the VRC TrueSkill rating builders.              *)
(*                                                                         *)
(*   SpecPace      apiFetch of build_ratings.js: the global pacer and the  *)
(*                 retry loop, with several callers interleaved at the     *)
(*                 await points.                                           *)
(*                                                                         *)
(* Every specification leaves the variables of the other parts at their    *)
(* idle values.                                                            *)
(***************************************************************************)
EXTENDS Integers, Sequences, FiniteSets, TLC

Max(a, b) == IF a >= b THEN a ELSE b
Min(a, b) == IF a <= b THEN a ELSE b

RECURSIVE Pow2(_)
Pow2(n) == IF n <= 0 THEN 1 ELSE 2 * Pow2(n - 1)

(***************************************************************************)
(* Part 1 - build_ratings.js apiFetch: global pacer + retry                *)
(***************************************************************************)

\* Bounds of the pacing model.
NumCallers == 2
MaxRetriesCfg == 2
MaxTicks == 5

\* The clock advances in steps of TickMs milliseconds.
TickMs == 1000

\* build_ratings.js reads these from the environment; the run modelled here is
\* configured with MIN_SPACING=2000 and BASE_DELAY=1000 (milliseconds).
MIN_SPACING == 2000
BASE_DELAY == 1000

\* The time of the first call: later than MIN_SPACING after lastCall = 0.
StartTime == 2000

Callers == 1 .. NumCallers
Undefined == "undefined"

VARIABLES
    now,          \* Date.now()
    lastCall,     \* the shared pacing clock
    MAX_RETRIES,  \* Number(process.env.MAX_RETRIES ?? 5)
    pc,           \* where each apiFetch call stands
    attempt,      \* the loop variable of each call
    wakeAt,       \* the deadline of the timer a call sleeps on
    answers,      \* the statuses the server has answered to each call
    sent,         \* every outbound request: who started it and when
    result,       \* what each call returned or threw
    backoff       \* the last backoff each call computed, and from which header

paceVars == <<now, lastCall, MAX_RETRIES, pc, attempt, wakeAt, answers, sent, result,
              backoff>>

\* What the server may answer: a status, a body, and no retry-after header
\* (<<>>) or one that gives a number of seconds.
Statuses == {200, 404, 429, 503}
RetryAfters == {<<>>, <<0>>, <<1>>}

\* Number(res.headers.get('retry-after')) || 0: get answers null for a missing
\* header and Number(null) is 0.
HeaderSeconds(header) == IF header = <<>> THEN 0 ELSE header[1]

NoBackoff == [header |-> <<>>, attempt |-> 0, ms |-> 0]

Ok(status) == status >= 200 /\ status <= 299

RetryableOffByOne(status) == status >= 400
Retryable(status) == status = 429 \/ status >= 500

MayRetryOffByOne(att) == att + 1 < MAX_RETRIES
MayRetry(att) == att < MAX_RETRIES

\* const backoff = ra*1000 || BASE_DELAY * 2**attempt
Backoff(ra, att) == IF ra * 1000 # 0 THEN ra * 1000 ELSE BASE_DELAY * Pow2(att)

\* const wait = Math.max(0, MIN_SPACING - (now - lastCall))
Wait == Max(0, MIN_SPACING - (now - lastCall))

InitPace ==
    /\ now = StartTime
    /\ lastCall = 0
    /\ MAX_RETRIES \in 0 .. MaxRetriesCfg
    /\ pc = [c \in Callers |-> "idle"]
    /\ attempt = [c \in Callers |-> 0]
    /\ wakeAt = [c \in Callers |-> 0]
    /\ answers = [c \in Callers |-> <<>>]
    /\ sent = <<>>
    /\ result = [c \in Callers |-> Undefined]
    /\ backoff = [c \in Callers |-> NoBackoff]

\* One caller alone: the other callers never call.
InitRetry ==
    /\ now = StartTime
    /\ lastCall = 0
    /\ MAX_RETRIES \in 0 .. MaxRetriesCfg
    /\ pc = [c \in Callers |-> IF c = 1 THEN "idle" ELSE "absent"]
    /\ attempt = [c \in Callers |-> 0]
    /\ wakeAt = [c \in Callers |-> 0]
    /\ answers = [c \in Callers |-> <<>>]
    /\ sent = <<>>
    /\ result = [c \in Callers |-> Undefined]
    /\ backoff = [c \in Callers |-> NoBackoff]

PaceIdle ==
    /\ now = 0
    /\ lastCall = 0
    /\ MAX_RETRIES = 0
    /\ pc = [c \in Callers |-> "idle"]
    /\ attempt = [c \in Callers |-> 0]
    /\ wakeAt = [c \in Callers |-> 0]
    /\ answers = [c \in Callers |-> <<>>]
    /\ sent = <<>>
    /\ result = [c \in Callers |-> Undefined]
    /\ backoff = [c \in Callers |-> NoBackoff]

\* lastCall = Date.now(); const res = await fetch(url, ...)
StartRequest(c) ==
    /\ lastCall' = now
    /\ sent' = Append(sent, [caller |-> c, at |-> now])
    /\ pc' = [pc EXCEPT ![c] = "fetching"]
    /\ UNCHANGED wakeAt

\* The head of one loop iteration: pace, then request.
Pace(c) ==
    IF Wait # 0
    THEN /\ pc' = [pc EXCEPT ![c] = "pacing"]
         /\ wakeAt' = [wakeAt EXCEPT ![c] = now + Wait]
         /\ UNCHANGED <<lastCall, sent>>
    ELSE StartRequest(c)

\* A caller calls apiFetch: attempt = 0 and the first iteration up to its await.
Call(c) ==
    /\ pc[c] = "idle"
    /\ attempt' = [attempt EXCEPT ![c] = 0]
    /\ IF 0 <= MAX_RETRIES
       THEN Pace(c)
       ELSE /\ pc' = [pc EXCEPT ![c] = "returned"]
            /\ UNCHANGED <<lastCall, sent, wakeAt>>
    /\ UNCHANGED <<now, MAX_RETRIES, answers, result, backoff>>

\* The pacing timer fires.
PaceWake(c) ==
    /\ pc[c] = "pacing"
    /\ now >= wakeAt[c]
    /\ StartRequest(c)
    /\ UNCHANGED <<now, MAX_RETRIES, attempt, answers, result, backoff>>

\* The response arrives: return, back off, or throw.
Respond(c, status, header) ==
    /\ pc[c] = "fetching"
    /\ LET body == Len(answers[c]) + 1
           ra == HeaderSeconds(header)
       IN
       /\ answers' = [answers EXCEPT ![c] = Append(@, status)]
       /\ IF Ok(status)
          THEN /\ pc' = [pc EXCEPT ![c] = "returned"]
               /\ result' = [result EXCEPT ![c] = [body |-> body]]
               /\ UNCHANGED <<wakeAt, backoff>>
          ELSE IF Retryable(status) /\ MayRetry(attempt[c])
          THEN /\ pc' = [pc EXCEPT ![c] = "backoff"]
               /\ wakeAt' = [wakeAt EXCEPT ![c] = now + Backoff(ra, attempt[c])]
               /\ backoff' = [backoff EXCEPT ![c] = [header |-> header,
                                                     attempt |-> attempt[c],
                                                     ms |-> Backoff(ra, attempt[c])]]
               /\ UNCHANGED result
          ELSE /\ pc' = [pc EXCEPT ![c] = "failed"]
               /\ result' = [result EXCEPT ![c] = [error |-> status]]
               /\ UNCHANGED <<wakeAt, backoff>>
    /\ UNCHANGED <<now, lastCall, MAX_RETRIES, attempt, sent>>

\* The service sends retry-after with its rate-limit answer (429) only.
Answer(c) ==
    \E status \in Statuses, header \in RetryAfters :
        /\ (header # <<>> => status = 429)
        /\ Respond(c, status, header)

\* The backoff timer fires: continue, attempt++, the next iteration.
Retry(c) ==
    /\ pc[c] = "backoff"
    /\ now >= wakeAt[c]
    /\ attempt' = [attempt EXCEPT ![c] = @ + 1]
    /\ IF attempt[c] + 1 <= MAX_RETRIES
       THEN Pace(c)
       ELSE /\ pc' = [pc EXCEPT ![c] = "returned"]
            /\ UNCHANGED <<lastCall, sent, wakeAt>>
    /\ UNCHANGED <<now, MAX_RETRIES, answers, result, backoff>>

\* Time passes.
Advance ==
    /\ now < StartTime + MaxTicks * TickMs
    /\ \A c \in Callers : pc[c] \in {"pacing", "backoff"} => now < wakeAt[c]
    /\ now' = now + TickMs
    /\ UNCHANGED <<lastCall, MAX_RETRIES, pc, attempt, wakeAt, answers, sent, result,
                   backoff>>

NextPace ==
    \/ \E c \in Callers : Call(c)
    \/ \E c \in Callers : PaceWake(c)
    \/ \E c \in Callers : Answer(c)
    \/ \E c \in Callers : Retry(c)
    \/ Advance

(***************************************************************************)
(* Part 3 - build_ratings.js mapLimit                                      *)
(***************************************************************************)

\* Bounds of the mapLimit model.
MaxItems == 4
MaxLimit == 3

VARIABLES
    arr,          \* the array: arr[idx] for idx in 0 .. n-1
    limit,        \* the limit argument
    nextIdx,      \* the local i: the next index to start
    active,       \* the local active
    ret,          \* the local ret, the indices assigned so far
    task,         \* each fn invocation: queued, running, fulfilled, rejected
    settled,      \* the promise done: idle (not called), pending, resolved, rejected
    called        \* the indices fn was called with, in the order of the calls

mlVars == <<arr, limit, nextIdx, active, ret, task, settled, called>>

ArrLen == Cardinality(DOMAIN arr)

\* The value fn produces for an element.
FnValue(x) == x * 10

\* A loop that keeps one slot of the limit free.
LaunchMoreBelowLimit(a, i, n, lim) == a + 1 < lim /\ i < n

\* while (active<limit && i<n)
LaunchMoreOffByOne(a, i, n, lim) == a <= lim /\ i < n
LaunchMore(a, i, n, lim) == a < lim /\ i < n

\* A launch without limit: every element is handed out at once.
LaunchLoopAll(i, a, n, lim) == n

\* The index reached by the while loop of launch() entered with i and active.
RECURSIVE LaunchLoop(_, _, _, _)
LaunchLoop(i, a, n, lim) ==
    IF LaunchMore(a, i, n, lim) THEN LaunchLoop(i + 1, a + 1, n, lim) ELSE i

\* A launch that hands out the elements from the end of the array.
HandedFromEnd(i, n) == n - 1 - i

\* const idx = i++; fn(arr[idx]): the index handed to fn when the counter is i.
Handed(i, n) == i

\* if (i>=n && active===0) return resolve(ret)
\* A mapLimit that resolves once every item has been handed out.
AllDoneEarly(i, a, n) == i >= n

AllDone(i, a, n) == i >= n /\ a = 0

InitMapLimit ==
    /\ \E n \in 0 .. MaxItems : arr = [idx \in 0 .. n - 1 |-> idx + 1]
    /\ limit \in 0 .. MaxLimit
    /\ nextIdx = 0
    /\ active = 0
    /\ ret = [idx \in {} |-> 0]
    /\ task = [idx \in DOMAIN arr |-> "queued"]
    /\ settled = "idle"
    /\ called = <<>>

MlIdle ==
    /\ arr = <<>>
    /\ limit = 0
    /\ nextIdx = 0
    /\ active = 0
    /\ ret = <<>>
    /\ task = <<>>
    /\ settled = "idle"
    /\ called = <<>>

\* launch(), entered with active = a, the promise in state st and the
\* invocations in states tk: resolve, or start fn on further elements.
Launch(a, st, tk) ==
    IF AllDone(nextIdx, a, ArrLen)
    THEN /\ settled' = IF st = "rejected" THEN st ELSE "resolved"
         /\ active' = a
         /\ nextIdx' = nextIdx
         /\ task' = tk
         /\ called' = called
    ELSE LET j == LaunchLoop(nextIdx, a, ArrLen, limit)
             handed == [k \in 1 .. j - nextIdx |-> Handed(nextIdx + k - 1, ArrLen)]
         IN
         /\ settled' = st
         /\ nextIdx' = j
         /\ active' = a + (j - nextIdx)
         /\ task' = [idx \in DOMAIN arr |->
                        IF \E k \in DOMAIN handed : handed[k] = idx THEN "running"
                        ELSE tk[idx]]
         /\ called' = called \o handed

\* mapLimit(arr, limit, fn) is called: the promise is created, launch() runs.
MapLimitCall ==
    /\ settled = "idle"
    /\ Launch(active, "pending", task)
    /\ UNCHANGED <<arr, limit, ret>>

\* A result array filled in the order of completion: ret.push(v).
SlotByCompletion(idx, r) == Cardinality(DOMAIN r)

\* ret[idx]=v: the slot of the result array that takes the value of element idx.
Slot(idx, r) == idx

\* fn(arr[idx]) fulfils: v => { ret[idx]=v; active--; launch(); }
TaskFulfils(idx) ==
    /\ idx \in DOMAIN task
    /\ task[idx] = "running"
    /\ ret' = [k \in DOMAIN ret \cup {Slot(idx, ret)} |->
                  IF k = Slot(idx, ret) THEN FnValue(arr[idx]) ELSE ret[k]]
    /\ Launch(active - 1, settled, [task EXCEPT ![idx] = "fulfilled"])
    /\ UNCHANGED <<arr, limit>>

\* fn(arr[idx]) rejects: reject is the handler; nothing else is touched.
TaskRejects(idx) ==
    /\ idx \in DOMAIN task
    /\ task[idx] = "running"
    /\ task' = [task EXCEPT ![idx] = "rejected"]
    /\ settled' = IF settled = "pending" THEN "rejected" ELSE settled
    /\ UNCHANGED <<arr, limit, nextIdx, active, ret, called>>

\* The fn invocations that have started and not completed.
Running == {idx \in DOMAIN task : task[idx] = "running"}

(***************************************************************************)
(* The numbers of JavaScript: the double arithmetic of the progress bars   *)
(***************************************************************************)

\* A whole number of any size is the sequence of its digits to the base Limb,
\* the lowest first, without a zero at the top; <<>> is 0.
Limb == 2 ^ 14

RECURSIVE BigOf(_)
BigOf(n) == IF n = 0 THEN <<>> ELSE <<n % Limb>> \o BigOf(n \div Limb)

RECURSIVE BigInt(_)
BigInt(a) == IF a = <<>> THEN 0 ELSE Head(a) + Limb * BigInt(Tail(a))

RECURSIVE BigTrim(_)
BigTrim(a) ==
    IF a = <<>> \/ a[Len(a)] # 0 THEN a ELSE BigTrim(SubSeq(a, 1, Len(a) - 1))

BigDigit(a, i) == IF 1 <= i /\ i <= Len(a) THEN a[i] ELSE 0

\* a < b
BigLess(a, b) ==
    \/ Len(a) < Len(b)
    \/ /\ Len(a) = Len(b)
       /\ \E i \in DOMAIN a : a[i] < b[i] /\ \A j \in i + 1 .. Len(a) : a[j] = b[j]

\* a + b
BigAdd(a, b) ==
    LET n == (IF Len(a) > Len(b) THEN Len(a) ELSE Len(b)) + 1
        RECURSIVE Carry(_)
        Carry(i) == IF i = 1 THEN 0
                    ELSE (BigDigit(a, i - 1) + BigDigit(b, i - 1) + Carry(i - 1)) \div Limb
    IN BigTrim([i \in 1 .. n |-> (BigDigit(a, i) + BigDigit(b, i) + Carry(i)) % Limb])

\* a - b, for a >= b
BigSub(a, b) ==
    LET RECURSIVE Borrow(_)
        Borrow(i) == IF i = 1 THEN 0
                     ELSE IF a[i - 1] - BigDigit(b, i - 1) - Borrow(i - 1) < 0 THEN 1 ELSE 0
    IN BigTrim([i \in DOMAIN a |-> (a[i] - BigDigit(b, i) - Borrow(i) + Limb) % Limb])

\* a * b, for factors of which one has at most four digits
BigMul(a, b) ==
    LET n == Len(a) + Len(b)
        RECURSIVE Column(_, _)
        Column(k, i) == IF i > Len(a) THEN 0
                        ELSE a[i] * BigDigit(b, k - i + 1) + Column(k, i + 1)
        column == [k \in 1 .. n |-> Column(k, 1)]
        RECURSIVE Carry(_)
        Carry(k) == IF k = 1 THEN 0 ELSE (column[k - 1] + Carry(k - 1)) \div Limb
    IN BigTrim([k \in 1 .. n |-> (column[k] + Carry(k)) % Limb])

\* a * 2^n
BigShl(a, n) ==
    LET p == 2 ^ (n % 14)
    IN BigTrim([i \in 1 .. n \div 14 |-> 0] \o
               [i \in 1 .. Len(a) + 1 |->
                   ((BigDigit(a, i) * p) % Limb) + ((BigDigit(a, i - 1) * p) \div Limb)])

\* a \div 2^n
BigShr(a, n) ==
    LET q == n \div 14
        p == 2 ^ (n % 14)
    IN BigTrim([i \in 1 .. Len(a) - q |->
                   (BigDigit(a, i + q) \div p) + (BigDigit(a, i + q + 1) % p) * (Limb \div p)])

\* The number of binary digits of a.
BigBits(a) ==
    IF a = <<>> THEN 0
    ELSE 14 * (Len(a) - 1) + CHOOSE k \in 1 .. 14 : 2 ^ (k - 1) <= a[Len(a)] /\ a[Len(a)] < 2 ^ k

\* The binary digit of a with weight 2^n.
BigBit(a, n) == (BigDigit(a, n \div 14 + 1) \div 2 ^ (n % 14)) % 2

\* The quotient and the remainder of a * 2^k by b, for a < 2 * b: one binary
\* digit of the quotient at a time.
BigQuotient(a, b, k) ==
    LET RECURSIVE Digits(_, _)
        Digits(s, left) ==
            IF BigLess(s.r, b)
            THEN IF left = 0 THEN [q |-> BigShl(s.q, 1), r |-> s.r]
                 ELSE Digits([q |-> BigShl(s.q, 1), r |-> BigShl(s.r, 1)], left - 1)
            ELSE IF left = 0 THEN [q |-> BigAdd(BigShl(s.q, 1), <<1>>), r |-> BigSub(s.r, b)]
                 ELSE Digits([q |-> BigAdd(BigShl(s.q, 1), <<1>>),
                              r |-> BigShl(BigSub(s.r, b), 1)], left - 1)
    IN Digits([q |-> <<>>, r |-> a], k)

\* A number of JavaScript is a double: not a number, infinite, a whole number
\* n below 2^31, or m * 2^e with a significand m of 53 binary digits.
\* Negative numbers and the range of the exponent play no part here.
NotANumber == [kind |-> "nan", n |-> 0, m |-> <<>>, e |-> 0]
Infinity == [kind |-> "inf", n |-> 0, m |-> <<>>, e |-> 0]

\* The double of a whole number 0 <= n < 2^31.
Double(n) == [kind |-> "whole", n |-> n, m |-> <<>>, e |-> 0]

\* A double that is a whole number below 2^31 is kept as that number.
Canonical(d) ==
    IF -52 <= d.e /\ d.e <= -22 /\ BigShl(BigShr(d.m, -d.e), -d.e) = d.m
    THEN Double(BigInt(BigShr(d.m, -d.e)))
    ELSE [kind |-> "num", n |-> 0, m |-> d.m, e |-> d.e]

\* A significand that the rounding has carried to 54 binary digits.
Carried(m, e) ==
    IF BigBits(m) = 54 THEN [m |-> BigShr(m, 1), e |-> e + 1] ELSE [m |-> m, e |-> e]

\* Round to nearest, ties to even: kept is n without its lowest drop binary
\* digits; it goes up when these are more than a half, or a half and kept is
\* odd.
RoundedUp(kept, n, drop, inexact) ==
    IF /\ BigBit(n, drop - 1) = 1
       /\ \/ inexact
          \/ BigBit(kept, 0) = 1
          \/ BigShl(BigShr(n, drop - 1), drop - 1) # n
    THEN BigAdd(kept, <<1>>) ELSE kept

\* n * 2^e with the lowest drop binary digits of n rounded away.
Rounded(n, drop, e, inexact) ==
    IF drop <= 0 THEN [m |-> BigShl(n, -drop), e |-> e + drop]
    ELSE Carried(RoundedUp(BigShr(n, drop), n, drop, inexact), e + drop)

\* The double nearest to n * 2^e, or to a value just above it when inexact,
\* for n > 0.
Nearest(n, e, inexact) == Canonical(Rounded(n, BigBits(n) - 53, e, inexact))

\* The significand and the exponent of a whole number b > 0.
Spread(b) == [m |-> BigShl(b, 53 - BigBits(b)), e |-> BigBits(b) - 53]

\* The significand and the exponent of a finite number that is not 0.
Parts(a) == IF a.kind = "whole" THEN Spread(BigOf(a.n)) ELSE [m |-> a.m, e |-> a.e]

Finite(a) == a.kind \in {"whole", "num"}

LessParts(u, v) == u.e < v.e \/ (u.e = v.e /\ BigLess(u.m, v.m))

\* a < b
Less(a, b) ==
    IF a.kind = "whole" /\ b.kind = "whole" THEN a.n < b.n
    ELSE /\ Finite(a) /\ b.kind # "nan"
         /\ \/ b.kind = "inf"
            \/ a = Double(0) /\ b # Double(0)
            \/ a # Double(0) /\ b # Double(0) /\ LessParts(Parts(a), Parts(b))

NearestQuotient(d, e) == Nearest(d.q, e, d.r # <<>>)

DivideParts(u, v) == NearestQuotient(BigQuotient(u.m, v.m, 55), u.e - v.e - 55)

\* a / b
Divide(a, b) ==
    IF a.kind = "nan" \/ b.kind = "nan" THEN NotANumber
    ELSE IF a.kind = "inf" THEN (IF b.kind = "inf" THEN NotANumber ELSE Infinity)
    ELSE IF b.kind = "inf" THEN Double(0)
    ELSE IF b = Double(0) THEN (IF a = Double(0) THEN NotANumber ELSE Infinity)
    ELSE IF a = Double(0) THEN a
    ELSE IF a.kind = "whole" /\ b.kind = "whole" /\ a.n % b.n = 0 THEN Double(a.n \div b.n)
    ELSE DivideParts(Parts(a), Parts(b))

TimesParts(u, v) == Nearest(BigMul(u.m, v.m), u.e + v.e, FALSE)

\* a * b
Times(a, b) ==
    IF a.kind = "nan" \/ b.kind = "nan" THEN NotANumber
    ELSE IF a.kind = "inf" \/ b.kind = "inf"
         THEN (IF a = Double(0) \/ b = Double(0) THEN NotANumber ELSE Infinity)
    ELSE IF a = Double(0) \/ b = Double(0) THEN Double(0)
    ELSE IF a.kind = "whole" /\ b.kind = "whole" /\ a.n <= 2147483647 \div b.n
         THEN Double(a.n * b.n)
    ELSE TimesParts(Parts(a), Parts(b))

PlusParts(u, v) ==
    IF u.e >= v.e THEN Nearest(BigAdd(BigShl(u.m, u.e - v.e), v.m), v.e, FALSE)
    ELSE Nearest(BigAdd(BigShl(v.m, v.e - u.e), u.m), u.e, FALSE)

\* a + b
Plus(a, b) ==
    IF a.kind = "nan" \/ b.kind = "nan" THEN NotANumber
    ELSE IF a.kind = "inf" \/ b.kind = "inf" THEN Infinity
    ELSE IF a = Double(0) THEN b
    ELSE IF b = Double(0) THEN a
    ELSE IF a.kind = "whole" /\ b.kind = "whole" /\ a.n <= 2147483647 - b.n
         THEN Double(a.n + b.n)
    ELSE PlusParts(Parts(a), Parts(b))

\* The whole number n, which is below 2^53, as a double.
WholeDouble(n) == IF n = <<>> THEN Double(0) ELSE Nearest(n, 0, FALSE)

\* Math.floor(a)
Floor(a) == IF a.kind # "num" \/ a.e >= 0 THEN a ELSE WholeDouble(BigShr(a.m, -a.e))

\* f is Math.floor(a): a is rounded to f below f + 1/2 and to f + 1 from there.
RoundedFrom(a, f) ==
    IF Less(Times(a, Double(2)), Plus(Times(f, Double(2)), Double(1))) THEN f
    ELSE Plus(f, Double(1))

\* Math.round(a): the nearest whole number, the upper one of two.
Round(a) == IF a.kind # "num" \/ a.e >= 0 THEN a ELSE RoundedFrom(a, Floor(a))

(***************************************************************************)
(* Part 4 - build_ratings.js: main, doSeason, doEvent, doDivision, doMatch *)
(*                                                                         *)
(* One step is one turn of the event loop: the arrival of an awaited       *)
(* response and everything the continuations do until each of them reaches *)
(* its next await on the network.  doMatch awaits nothing, so the matches  *)
(* of a division are rated, through mapLimit, within the turn in which     *)
(* their list arrives.                                                     *)
(***************************************************************************)

\* Bounds of the harvest model.
MaxEvents == 2
MaxDivs == 2
MaxMatches == 2

\* Number(process.env.CONCURRENCY ?? 4); the run modelled here has CONCURRENCY=2.
CONCURRENCY == 2

\* What /seasons answers, in the server's order; main keeps 190 and 197.
RemoteSeasons == <<197, 181, 190>>
SeasonIds == {190, 197}

\* The remote hierarchy.  Season 190 has up to MaxEvents events (11, 12, ...),
\* season 197 at most one (21); the world gives the number of divisions of
\* each event; division d of event e has (e + d + 1) % (MaxMatches + 1) matches.
EventIdsOf(s) == IF s = 190 THEN {10 + j : j \in 1 .. MaxEvents}
                 ELSE IF s = 197 THEN {21} ELSE {}
AllEvents == EventIdsOf(190) \cup EventIdsOf(197)
AllDivs == {<<e, d>> : e \in AllEvents, d \in 1 .. MaxDivs}

Teams == {<<"A">>, <<"B">>, <<"C">>, <<"D">>}
\* A team number is the sequence of its characters ("229V" is <<"2", "2", "9",
\* "V">>); an entry without team link has no name.
NoLink == <<>>

VARIABLES
    world,        \* the remote data: nEv[season], nDiv[event]
    run,          \* the state of the running process
    runNo,        \* 1: the first run, 2: a second run against the same data
    prev          \* what the first run applied and ended with

buildVars == <<world, run, runNo, prev>>

Worlds ==
    {w \in [nEv : [SeasonIds -> 0 .. MaxEvents], nDiv : [AllEvents -> 0 .. MaxDivs]] :
        /\ w.nEv[197] <= 1
        /\ \A s \in SeasonIds : \A e \in EventIdsOf(s) :
              (e % 10 > w.nEv[s]) => w.nDiv[e] = 0}

SeasonOf(e) == IF e \in EventIdsOf(190) THEN 190 ELSE 197

\* fetchAll('/events', {season: s}).
EventsOf(s) == [j \in 1 .. world.nEv[s] |-> (IF s = 190 THEN 10 ELSE 20) + j]

\* apiFetch(`/events/${ev.id}/divisions`).data
DivisionsOf(e) == [d \in 1 .. world.nDiv[e] |-> d]

MatchCount(e, d) == (e + d + 1) % (MaxMatches + 1)

Alliance(teams, score) == [present |-> TRUE, teams |-> teams, score |-> score]
NoAlliance == [present |-> FALSE, teams |-> <<>>, score |-> 0]

\* The k-th match of division d of event e.  The records of the remote
\* service: red wins, blue wins, a tie, a red side with a team entry that
\* carries no team link, a match without blue alliance.
MatchRecord(e, d, k) ==
    LET id == e * 100 + d * 10 + k
        kind == (e + 2 * d + 2 * k) % 5
    IN  CASE kind = 0 -> [id |-> id, red |-> Alliance(<<<<"A">>, <<"B">>>>, 2), blue |-> Alliance(<<<<"C">>, <<"D">>>>, 1)]
          [] kind = 1 -> [id |-> id, red |-> Alliance(<<<<"A">>, <<"C">>>>, 0), blue |-> Alliance(<<<<"B">>, <<"D">>>>, 3)]
          [] kind = 2 -> [id |-> id, red |-> Alliance(<<<<"A">>, <<"D">>>>, 1), blue |-> Alliance(<<<<"B">>, <<"C">>>>, 1)]
          [] kind = 3 -> [id |-> id, red |-> Alliance(<<<<"A">>, NoLink>>, 1), blue |-> Alliance(<<<<"C">>, <<"D">>>>, 0)]
          [] kind = 4 -> [id |-> id, red |-> Alliance(<<<<"A">>, <<"B">>>>, 1), blue |-> NoAlliance]

\* fetchAll(`/events/${evId}/divisions/${div.id}/matches`, {scored: 1})
MatchesOf(e, d) == [k \in 1 .. MatchCount(e, d) |-> MatchRecord(e, d, k)]

\* seasons.filter(s => s.id===197 || s.id===190)
RECURSIVE FilterWanted(_)
FilterWanted(ss) ==
    IF ss = <<>> THEN <<>>
    ELSE IF Head(ss) = 197 \/ Head(ss) = 190
         THEN <<Head(ss)>> \o FilterWanted(Tail(ss))
         ELSE FilterWanted(Tail(ss))

\* .sort((a,b) => a.id - b.id): insertion into an ascending sequence.
RECURSIVE InsertAsc(_, _)
InsertAsc(x, ss) ==
    IF ss = <<>> THEN <<x>>
    ELSE IF x < Head(ss) THEN <<x>> \o ss
         ELSE <<Head(ss)>> \o InsertAsc(x, Tail(ss))

RECURSIVE SortAsc(_)
SortAsc(ss) == IF ss = <<>> THEN <<>> ELSE InsertAsc(Head(ss), SortAsc(Tail(ss)))

Wanted == SortAsc(FilterWanted(RemoteSeasons))

ZeroStats == [seasons |-> 0, events |-> 0, eventsNoDiv |-> 0, divisions |-> 0,
              divNoMatch |-> 0, matches |-> 0, rated |-> 0]

\* The process after the module body has run and main awaits /seasons.
FreshRun ==
    [main |-> "seasons",
     sIdx |-> 0,
     sPc |-> "none",
     events |-> <<>>,
     eNext |-> 0,
     eActive |-> 0,
     evPc |-> [e \in AllEvents |-> "queued"],
     dNext |-> [e \in AllEvents |-> 0],
     dActive |-> [e \in AllEvents |-> 0],
     dvPc |-> [ed \in AllDivs |-> "queued"],
     ratings |-> [n \in {} |-> <<>>],
     keys |-> <<>>,
     applied |-> <<>>,
     teams |-> <<>>,
     total |-> 1,
     done |-> 0,
     over |-> FALSE,
     threw |-> FALSE,
     written |-> FALSE,
     failed |-> "none",
     stats |-> ZeroStats]

NoPrev == [applied |-> <<>>, ratings |-> [n \in {} |-> <<>>]]

InitBuild ==
    /\ world \in Worlds
    /\ run = FreshRun
    /\ runNo = 1
    /\ prev = NoPrev

\* A crowded season: 190 has CONCURRENCY + 1 events, each with one division
\* or with CONCURRENCY + 1 divisions, so that both limiters have to queue.
Crowd == CONCURRENCY + 1
CrowdEvents == {10 + j : j \in 1 .. Crowd} \cup {21}
CrowdDivs == {<<e, d>> : e \in CrowdEvents, d \in 1 .. Crowd}

CrowdWorlds ==
    {[nEv |-> [s \in SeasonIds |-> IF s = 190 THEN Crowd ELSE 0],
      nDiv |-> [e \in CrowdEvents |-> IF e = 21 THEN 0 ELSE divs[e - 10]]] :
        divs \in [1 .. Crowd -> {1, Crowd}]}

InitCrowd ==
    /\ world \in CrowdWorlds
    /\ run = [FreshRun EXCEPT !.evPc = [e \in CrowdEvents |-> "queued"],
                              !.dNext = [e \in CrowdEvents |-> 0],
                              !.dActive = [e \in CrowdEvents |-> 0],
                              !.dvPc = [ed \in CrowdDivs |-> "queued"]]
    /\ runNo = 1
    /\ prev = NoPrev

BuildIdle ==
    /\ world = [nEv |-> [s \in SeasonIds |-> 0], nDiv |-> [e \in AllEvents |-> 0]]
    /\ run = FreshRun
    /\ runNo = 0
    /\ prev = NoPrev

\* ---- doMatch -----------------------------------------------------------

\* The team entries without the filter on the team link.
LinkedTeamsUnfiltered(alliance) == alliance.teams

\* teams.filter(t => t.team).map(t => t.team.number)
LinkedTeams(alliance) == SelectSeq(alliance.teams, LAMBDA t : t # NoLink)

\* Ranks that break a tie in favour of red.
RanksTieToRed(red, blue) ==
    IF red.score >= blue.score THEN <<0, 1>> ELSE <<1, 0>>

\* Ranks that give the better rank to the lower score.
RanksLowerScoreWins(red, blue) ==
    IF red.score > blue.score THEN <<1, 0>>
    ELSE IF red.score < blue.score THEN <<0, 1>> ELSE <<0, 0>>

\* red.score>blue.score ? [0,1] : red.score<blue.score ? [1,0] : [0,0]
Ranks(red, blue) ==
    IF red.score > blue.score THEN <<0, 1>>
    ELSE IF red.score < blue.score THEN <<1, 0>> ELSE <<0, 0>>

\* ratings.get(n) || new Rating(): a belief is the record of the updates made
\* to the prior, the prior being the empty record.
NewRating == <<>>
RatingOf(ratings, n) == IF n \in DOMAIN ratings THEN ratings[n] ELSE NewRating

\* env.rate([rR, bR], ranks): every belief is updated with the match and the
\* rank of its side.
Rate(rR, bR, ranks, id) ==
    <<[i \in DOMAIN rR |-> Append(rR[i], [match |-> id, rank |-> ranks[1], vs |-> ranks[2]])],
      [i \in DOMAIN bR |-> Append(bR[i], [match |-> id, rank |-> ranks[2], vs |-> ranks[1]])]>>

\* A map that keeps the first rating stored for a team.
SetRatingOnce(ratings, n, r) ==
    [k \in DOMAIN ratings \cup {n} |-> IF k \in DOMAIN ratings THEN ratings[k] ELSE r]

\* A store that holds the rating stored last and nothing else.
SetRatingAlone(ratings, n, r) == [k \in {n} |-> r]

\* ratings.set(n, r)
SetRating(ratings, n, r) ==
    [k \in DOMAIN ratings \cup {n} |-> IF k = n THEN r ELSE ratings[k]]

\* The keys of the Map ratings in the order of [...ratings.entries()]: a key
\* stands where ratings.set first put it.
SetKey(keys, n) ==
    IF \E i \in DOMAIN keys : keys[i] = n THEN keys ELSE Append(keys, n)

\* addWork(n)
AddWork(st, n) == [st EXCEPT !.total = @ + n]

\* const BAR_WIDTH = 28
BAR_WIDTH == 28

\* const full = Math.round(pct * BAR_WIDTH), with pct = done / total
Full(done, total) ==
    Round(Times(Divide(Double(done), Double(total)), Double(BAR_WIDTH)))

\* draw() throws a RangeError: full is Infinity (total 0, done not 0), or
\* above BAR_WIDTH, which makes the count BAR_WIDTH - full of the second
\* repeat negative.  With total and done both 0 full is NaN, and a NaN count
\* repeats nothing.  Division and multiplication of doubles are monotonic, so
\* done <= total gives full <= BAR_WIDTH and only done > total is computed.
DrawThrows(done, total) ==
    /\ done > total
    /\ LET full == Full(done, total)
       IN full.kind = "inf" \/ Less(Double(BAR_WIDTH), full)

\* draw(); threw records that a draw() threw.
Draw(st) == [st EXCEPT !.threw = @ \/ DrawThrows(st.done, st.total)]

\* A tick that counts no work.
TickNothing(st) == st

\* A tick that counts a unit of work twice.
TickTwice(st) == [st EXCEPT !.done = @ + 2, !.over = @ \/ st.done + 2 > st.total]

\* tick(): done += 1; draw(); over records that some draw() reported more work
\* done than the total.  When draw() throws, tick() does not return.
Tick(st) == Draw([st EXCEPT !.done = @ + 1, !.over = @ \/ st.done + 1 > st.total])

\* The validity filter of doMatch.
ValidMatch(m) ==
    /\ m.red.present /\ m.blue.present
    /\ Len(LinkedTeams(m.red)) = 2 /\ Len(LinkedTeams(m.blue)) = 2

DoMatch(st, m) ==
    LET st1 == [st EXCEPT !.stats.matches = @ + 1] IN
    IF ~m.red.present \/ ~m.blue.present THEN Tick(st1)
    ELSE LET rT == LinkedTeams(m.red)
             bT == LinkedTeams(m.blue)
         IN
         IF Len(rT) # 2 \/ Len(bT) # 2 THEN Tick(st1)
         ELSE LET rR == [i \in 1 .. 2 |-> RatingOf(st1.ratings, rT[i])]
                  bR == [i \in 1 .. 2 |-> RatingOf(st1.ratings, bT[i])]
                  new == Rate(rR, bR, Ranks(m.red, m.blue), m.id)
                  r1 == SetRating(st1.ratings, rT[1], new[1][1])
                  r2 == SetRating(r1, rT[2], new[1][2])
                  r3 == SetRating(r2, bT[1], new[2][1])
                  r4 == SetRating(r3, bT[2], new[2][2])
              IN Tick([st1 EXCEPT !.ratings = r4,
                                  !.keys = SetKey(SetKey(SetKey(SetKey(@, rT[1]), rT[2]),
                                                         bT[1]), bT[2]),
                                  !.applied = Append(@, m.id),
                                  !.stats.rated = @ + 1])

\* await mapLimit(matches, CONCURRENCY, doMatch): doMatch completes when called,
\* so the matches are rated one after the other in the order of the list.
\* A doMatch whose tick() throws rejects: mapLimit rejects and never gives
\* the slot back (active-- is in the handler of a fulfilment), so that the
\* later matches are still started as long as fewer than CONCURRENCY calls
\* have rejected.
RECURSIVE DoMatchesFrom(_, _, _)
DoMatchesFrom(st, ms, rejected) ==
    IF ms = <<>> \/ rejected >= CONCURRENCY THEN st
    ELSE DoMatchesFrom(DoMatch(st, Head(ms)), Tail(ms),
                       rejected + (IF DrawThrows(st.done + 1, st.total) THEN 1 ELSE 0))

DoMatches(st, ms) == DoMatchesFrom(st, ms, 0)

\* ---- main: the season loop and the output ------------------------------

\* doSeason(s) up to its await: stats.seasons++, fetchAll('/events', ...).
StartSeason(st, k) ==
    [st EXCEPT !.sIdx = k, !.sPc = "events", !.stats.seasons = @ + 1,
               !.events = <<>>, !.eNext = 0, !.eActive = 0]

\* The value of a decimal digit.
DigitValue(c) ==
    CASE c = "0" -> 0 [] c = "1" -> 1 [] c = "2" -> 2 [] c = "3" -> 3 [] c = "4" -> 4
      [] c = "5" -> 5 [] c = "6" -> 6 [] c = "7" -> 7 [] c = "8" -> 8 [] c = "9" -> 9

\* a < b for two decimal numerals without leading zero.
NumeralBelow(a, b) ==
    \/ Len(a) < Len(b)
    \/ /\ Len(a) = Len(b)
       /\ \E i \in DOMAIN a : /\ DigitValue(a[i]) < DigitValue(b[i])
                               /\ \A j \in 1 .. i - 1 : a[j] = b[j]

\* 2^32 - 2, the largest array index of JavaScript.
MaxArrayIndex == <<"4", "2", "9", "4", "9", "6", "7", "2", "9", "4">>

\* A property key that is an array index: the canonical numeral of a whole
\* number up to 2^32 - 2 ("7", "10"; not "07", not "229V").
IsArrayIndex(n) ==
    /\ n # <<>>
    /\ \A i \in DOMAIN n : n[i] \in {"0", "1", "2", "3", "4", "5", "6", "7", "8", "9"}
    /\ n[1] = "0" => Len(n) = 1
    /\ ~NumeralBelow(MaxArrayIndex, n)

\* teams: Object.fromEntries([...ratings.entries()].map(([n, r]) => [n, {...}])):
\* the names of the teams in the order of the written object.  The entries are
\* in the order of the Map; the object lists the keys that are array indices
\* first, in ascending numeric order, then the other keys in the order in
\* which they were added.
TeamsOut(st) ==
    LET indices == SelectSeq(st.keys, IsArrayIndex)
        others == SelectSeq(st.keys, LAMBDA n : ~IsArrayIndex(n))
        set == {indices[i] : i \in DOMAIN indices}
        ascending == [i \in DOMAIN indices |->
                         CHOOSE n \in set :
                             Cardinality({k \in set : NumeralBelow(k, n)}) = i - 1]
    IN ascending \o others

\* After the loop: main builds out and awaits fs.writeFile('ratings.json', ...).
Finish(st) == [st EXCEPT !.main = "writing", !.sPc = "none"]

\* A draw() threw: the promise of the handler rejects, mapLimit, doSeason and
\* main reject in turn, no handler: the rejection ends the process.
DrawCrash(st) == [st EXCEPT !.main = "crashed", !.failed = "draw"]

\* for (const s of wanted) await doSeason(s): the next season, or the output.
SeasonDone(st) ==
    IF st.sIdx < Len(Wanted) THEN StartSeason(st, st.sIdx + 1) ELSE Finish(st)

\* ---- doSeason: mapLimit(events, CONCURRENCY, doEvent) ------------------

\* doEvent(ev) up to its await: stats.events++, apiFetch(.../divisions).
StartEvent(st, e) ==
    [st EXCEPT !.stats.events = @ + 1, !.evPc[e] = "divisions"]

RECURSIVE StartEvents(_, _, _)
StartEvents(st, i, j) ==
    IF i >= j THEN st ELSE StartEvents(StartEvent(st, st.events[i + 1]), i + 1, j)

\* launch() of the events' mapLimit.
LaunchEvents(st) ==
    LET n == Len(st.events) IN
    IF AllDone(st.eNext, st.eActive, n) THEN SeasonDone(st)
    ELSE LET j == LaunchLoop(st.eNext, st.eActive, n, CONCURRENCY)
             st1 == StartEvents(st, st.eNext, j)
         IN [st1 EXCEPT !.eNext = j, !.eActive = st.eActive + (j - st.eNext)]

\* doEvent fulfils: ret[idx]=v; active--; launch().
EventFulfilled(st, e) ==
    LaunchEvents([st EXCEPT !.evPc[e] = "done", !.eActive = @ - 1])

\* The end of doEvent: tick(), and doEvent fulfils or, tick() having thrown,
\* rejects.
EventTicked(st, e) ==
    LET st1 == Tick(st) IN IF st1.threw THEN DrawCrash(st1) ELSE EventFulfilled(st1, e)

\* ---- doEvent: mapLimit(divs, CONCURRENCY, d => doDivision(ev.id, d)) ---

\* doDivision(evId, div) up to its await: fetchAll(.../matches).
StartDivision(st, e, d) == [st EXCEPT !.dvPc[<<e, d>>] = "matches"]

RECURSIVE StartDivisions(_, _, _, _)
StartDivisions(st, e, i, j) ==
    IF i >= j THEN st
    ELSE StartDivisions(StartDivision(st, e, DivisionsOf(e)[i + 1]), e, i + 1, j)

\* launch() of the divisions' mapLimit of event e; when it resolves doEvent
\* goes on: tick(), the event itself.
LaunchDivisions(st, e) ==
    LET n == Len(DivisionsOf(e)) IN
    IF AllDone(st.dNext[e], st.dActive[e], n) THEN EventTicked(st, e)
    ELSE LET j == LaunchLoop(st.dNext[e], st.dActive[e], n, CONCURRENCY)
             st1 == StartDivisions(st, e, st.dNext[e], j)
         IN [st1 EXCEPT !.dNext[e] = j, !.dActive[e] = st.dActive[e] + (j - st.dNext[e])]

\* doDivision fulfils: ret[idx]=v; active--; launch().
DivisionFulfilled(st, e, d) ==
    LaunchDivisions([st EXCEPT !.dvPc[<<e, d>>] = "done", !.dActive[e] = @ - 1], e)

\* if(!divs.length){stats.eventsNoDiv++; tick(); return;}: doEvent fulfils.
EmptyEvent(st, e) == EventTicked([st EXCEPT !.stats.eventsNoDiv = @ + 1], e)

\* A division without matches that returns without its mapLimit going on.
EmptyDivisionStops(st, e, d) ==
    [st EXCEPT !.stats.divNoMatch = @ + 1, !.dvPc[<<e, d>>] = "done"]

\* if(!matches.length){stats.divNoMatch++; return;}: doDivision fulfils.
EmptyDivision(st, e, d) ==
    DivisionFulfilled([st EXCEPT !.stats.divNoMatch = @ + 1], e, d)

\* ---- the turns -----------------------------------------------------------

\* /seasons arrives: wanted, the counters are reset, the first doSeason starts.
SeasonsArrive ==
    /\ run.main = "seasons"
    /\ run' = SeasonDone([run EXCEPT !.main = "rating", !.total = 0, !.done = 0])
    /\ UNCHANGED <<world, runNo, prev>>

\* The events of the season arrive: addWork, mapLimit over the events.
EventsArrive ==
    /\ run.main = "rating" /\ run.sPc = "events"
    /\ LET events == EventsOf(Wanted[run.sIdx])
           st1 == Draw(AddWork([run EXCEPT !.events = events, !.sPc = "mapping"],
                               Len(events)))
       IN run' = IF st1.threw THEN DrawCrash(st1) ELSE LaunchEvents(st1)
    /\ UNCHANGED <<world, runNo, prev>>

\* The divisions of an event arrive.
DivisionsArrive(e) ==
    /\ run.main = "rating" /\ run.evPc[e] = "divisions"
    /\ LET divs == DivisionsOf(e) IN
       run' = IF Len(divs) = 0
              THEN EmptyEvent(run, e)
              ELSE LaunchDivisions([run EXCEPT !.stats.divisions = @ + Len(divs),
                                               !.evPc[e] = "mapping"], e)
    /\ UNCHANGED <<world, runNo, prev>>

\* The matches of a division arrive.
MatchesArrive(e, d) ==
    /\ run.main = "rating" /\ run.dvPc[<<e, d>>] = "matches"
    /\ LET matches == MatchesOf(e, d) IN
       run' = IF Len(matches) = 0
              THEN EmptyDivision(run, e, d)
              ELSE LET st1 == Draw(AddWork(run, Len(matches)))
                       st2 == IF st1.threw THEN st1 ELSE DoMatches(st1, matches)
                   IN IF st2.threw THEN DrawCrash(st2)
                      ELSE DivisionFulfilled(st2, e, d)
    /\ UNCHANGED <<world, runNo, prev>>

FetchKinds == {"seasons", "events", "divisions", "matches"}

\* A fetch of the run is in flight: of the seasons, of the events of a season,
\* of the divisions of an event, of the matches of a division.
InFlight(kind) ==
    \/ kind = "seasons" /\ run.main = "seasons"
    \/ kind = "events" /\ run.main = "rating" /\ run.sPc = "events"
    \/ kind = "divisions" /\ run.main = "rating"
                          /\ \E e \in DOMAIN run.evPc : run.evPc[e] = "divisions"
    \/ kind = "matches" /\ run.main = "rating"
                        /\ \E ed \in DOMAIN run.dvPc : run.dvPc[ed] = "matches"

\* An awaited fetch throws (apiFetch out of retries, or a fatal status): no
\* handler anywhere up to main, the rejection is unhandled and ends the process.
FetchFails(kind) ==
    /\ InFlight(kind)
    /\ run' = [run EXCEPT !.main = "crashed", !.failed = kind]
    /\ UNCHANGED <<world, runNo, prev>>

\* fs.writeFile fulfils: ratings.json holds out, 'Saved ...' is logged.
WriteDone ==
    /\ run.main = "writing"
    /\ run' = [run EXCEPT !.main = "done", !.written = TRUE, !.teams = TeamsOut(run)]
    /\ UNCHANGED <<world, runNo, prev>>

\* fs.writeFile rejects: no handler, the rejection ends the process.
WriteFails ==
    /\ run.main = "writing"
    /\ run' = [run EXCEPT !.main = "crashed", !.failed = "write"]
    /\ UNCHANGED <<world, runNo, prev>>

\* The program is run again against the same remote data.
RunAgain ==
    /\ runNo = 1
    /\ run.main = "done"
    /\ prev' = [applied |-> run.applied, ratings |-> run.ratings]
    /\ run' = FreshRun
    /\ runNo' = 2
    /\ UNCHANGED world

(***************************************************************************)
(* Part 5 - grok_build_ratings.js: computeTrueSkills and rateSeason        *)
(*                                                                         *)
(* One step is one turn of the event loop, as in part 4.  The fetches of   *)
(* the estimate phase follow one another with nothing else running, so the *)
(* estimate of a season is one step.                                       *)
(***************************************************************************)

\* The start dates an event can have.
StartTimes == {1, 2}

\* const BATCH_SIZE = 5
BATCH_SIZE == 5

\* The bar of renderProgress.
ProgressWidth == 50

\* A name is the sequence of its characters.
HighStakes == <<"H", "i", "g", "h", " ", "S", "t", "a", "k", "e", "s">>

\* What /seasons answers: 197 "2025-2026: Push Back", 181 "Over Under",
\* 190 "2024-2025: High Stakes".
GrokRemoteSeasons ==
    <<[id |-> 197, name |-> <<"2", "0", "2", "5", "-", "2", "0", "2", "6", ":", " ", "P", "u", "s", "h", " ", "B", "a", "c", "k">>],
      [id |-> 181, name |-> <<"O", "v", "e", "r", " ", "U", "n", "d", "e", "r">>],
      [id |-> 190, name |-> <<"2", "0", "2", "4", "-", "2", "0", "2", "5", ":", " ">> \o HighStakes]>>

GrokTeams == {<<"A">>, <<"B">>, <<"C">>, <<"D">>, <<"E">>, <<"F">>, <<"G">>, <<"H">>}

VARIABLES
    gworld,       \* the remote data: nEv[season], nDiv[event], start[event]
    g             \* the state of the running process

grokVars == <<gworld, g>>

\* The worlds of a run: the start dates of the first two events of season 190
\* vary, which gives either order of the two and a tie; every other event
\* starts at 1.
GrokWorlds ==
    {w \in [nEv : [SeasonIds -> 0 .. MaxEvents],
            nDiv : [AllEvents -> 0 .. MaxDivs],
            start : [AllEvents -> StartTimes]] :
        /\ w.nEv[197] <= 1
        /\ \A s \in SeasonIds : \A e \in EventIdsOf(s) :
              (e % 10 > w.nEv[s]) => (w.nDiv[e] = 0 /\ w.start[e] = 1)
        /\ \A e \in AllEvents \ {11, 12} : w.start[e] = 1}

\* A long season: 190 has BATCH_SIZE + 1 events (11, 12, ...), one more than
\* the estimate samples; the first BATCH_SIZE of them have the same number of
\* divisions, the last one none, MaxDivs or BATCH_SIZE + 1.
LongSeason == BATCH_SIZE + 1
LongEvents == {10 + j : j \in 1 .. LongSeason} \cup {21}
ManyDivisions == BATCH_SIZE + 1
GrokDivisionIds == 1 .. Max(MaxDivs, ManyDivisions)

GrokLongWorlds ==
    {[nEv |-> [s \in SeasonIds |-> IF s = 190 THEN LongSeason ELSE later],
      nDiv |-> [e \in LongEvents |->
                   IF e = 21 THEN laterDivs
                   ELSE IF e = 10 + LongSeason THEN lastDivs ELSE sampledDivs],
      start |-> [e \in LongEvents |-> 1]] :
        later \in 0 .. 1, laterDivs \in 0 .. 1, sampledDivs \in 0 .. 1,
        lastDivs \in {0, MaxDivs, ManyDivisions}}

\* fetchAll('/events', {season}): the events in the server's order.
GrokEventsOf(s) ==
    [j \in 1 .. gworld.nEv[s] |->
        LET e == (IF s = 190 THEN 10 ELSE 20) + j IN [id |-> e, start |-> gworld.start[e]]]

\* apiFetch(`/events/${ev.id}/divisions`).data
GrokDivisionsOf(e) == [d \in 1 .. gworld.nDiv[e] |-> d]

GrokMatchCount(e, d) == MaxMatches - ((e + d) % 2)

\* The k-th match of division d of event e: a qualification match (round 2)
\* numbered k.  The divisions of an event play in parallel, so their schedules
\* alternate; the teams of division 1 are A-D, those of the others E-H.
GrokMatchRecord(e, d, k) ==
    LET kind == (e + 2 * d + 2 * k) % 5
        t == IF d = 1 THEN <<<<"A">>, <<"B">>, <<"C">>, <<"D">>>> ELSE <<<<"E">>, <<"F">>, <<"G">>, <<"H">>>>
        alliances ==
            CASE kind = 0 -> <<Alliance(<<t[1], t[2]>>, 2), Alliance(<<t[3], t[4]>>, 1)>>
              [] kind = 1 -> <<Alliance(<<t[1], t[3]>>, 0), Alliance(<<t[2], t[4]>>, 3)>>
              [] kind = 2 -> <<Alliance(<<t[1], t[4]>>, 1), Alliance(<<t[2], t[3]>>, 1)>>
              [] kind = 3 -> <<Alliance(<<t[1], NoLink>>, 1), Alliance(<<t[3], t[4]>>, 0)>>
              [] kind = 4 -> <<Alliance(<<t[1], t[2]>>, 1), NoAlliance>>
    IN  [id |-> e * 100 + d * 10 + k,
         round |-> 2,
         matchnum |-> k,
         scheduled |-> gworld.start[e] + 2 * (k - 1) + (d - 1),
         red |-> alliances[1],
         blue |-> alliances[2]]

\* fetchAll(`/events/${ev.id}/divisions/${div.id}/matches`, {scored: 1}): the
\* server lists the latest match first.
GrokMatchesOf(e, d) ==
    LET n == GrokMatchCount(e, d) IN
    [k \in 1 .. n |-> GrokMatchRecord(e, d, n + 1 - k)]

\* [...seasons].sort((a, b) => a.id - b.id)
RECURSIVE InsertById(_, _)
InsertById(x, ss) ==
    IF ss = <<>> THEN <<x>>
    ELSE IF x.id < Head(ss).id THEN <<x>> \o ss
         ELSE <<Head(ss)>> \o InsertById(x, Tail(ss))

RECURSIVE SortById(_)
SortById(ss) ==
    IF ss = <<>> THEN <<>>
    ELSE InsertById(ss[Len(ss)], SortById(SubSeq(ss, 1, Len(ss) - 1)))

\* name.includes(part): part stands somewhere in name, character by character.
Includes(name, part) ==
    \E i \in 0 .. Len(name) - Len(part) : SubSeq(name, i + 1, i + Len(part)) = part

\* ordered.findIndex(s => s.name.includes('High Stakes')), 1-based; 0: not found.
RECURSIVE FindHighStakes(_, _)
FindHighStakes(ss, i) ==
    IF i > Len(ss) THEN 0
    ELSE IF Includes(ss[i].name, HighStakes) THEN i ELSE FindHighStakes(ss, i + 1)

Ordered == SortById(GrokRemoteSeasons)
HighStakesIndex == FindHighStakes(Ordered, 1)
\* ordered.slice(highStakesIndex)
SeasonsToRate == SubSeq(Ordered, HighStakesIndex, Len(Ordered))

\* events.sort((a, b) => new Date(a.start) - new Date(b.start)): stable.
RECURSIVE InsertByStart(_, _)
InsertByStart(x, ss) ==
    IF ss = <<>> THEN <<x>>
    ELSE IF x.start < Head(ss).start THEN <<x>> \o ss
         ELSE <<Head(ss)>> \o InsertByStart(x, Tail(ss))

RECURSIVE SortByStart(_)
SortByStart(ss) ==
    IF ss = <<>> THEN <<>>
    ELSE InsertByStart(ss[Len(ss)], SortByStart(SubSeq(ss, 1, Len(ss) - 1)))

\* (a.round - b.round) || (a.matchnum - b.matchnum)
RoundThenNumber(a, b) ==
    IF a.round - b.round # 0 THEN a.round - b.round ELSE a.matchnum - b.matchnum

\* The list of a division as the service sent it, not sorted.
SortByRoundOmitted(ss) == ss

\* matches.sort((a, b) => (a.round - b.round) || (a.matchnum - b.matchnum))
RECURSIVE InsertByRound(_, _)
InsertByRound(x, ss) ==
    IF ss = <<>> THEN <<x>>
    ELSE IF RoundThenNumber(x, Head(ss)) < 0 THEN <<x>> \o ss
         ELSE <<Head(ss)>> \o InsertByRound(x, Tail(ss))

RECURSIVE SortByRound(_)
SortByRound(ss) ==
    IF ss = <<>> THEN <<>>
    ELSE InsertByRound(ss[Len(ss)], SortByRound(SubSeq(ss, 1, Len(ss) - 1)))

\* divisionMatches.flat()
RECURSIVE Flat(_)
Flat(lists) == IF lists = <<>> THEN <<>> ELSE Head(lists) \o Flat(Tail(lists))

\* The process when initModules awaits its token check.
GrokFresh ==
    [main |-> "init",
     preIdx |-> 0,
     totalMatches |-> Double(0),
     sIdx |-> 0,
     rPc |-> "none",
     events |-> <<>>,
     eIdx |-> 0,
     pending |-> {},
     divisionMatches |-> <<>>,
     allMatches |-> <<>>,
     matchCount |-> 0,
     processedMatches |-> 0,
     progressOffset |-> 0,
     totalTeams |-> 0,
     teamRatings |-> [n \in {} |-> <<>>],
     teamHistory |-> [n \in {} |-> <<>>],
     applied |-> <<>>,
     failed |-> "none",
     fatal |-> "none",
     skipped |-> {},
     threw |-> {},
     lastArrived |-> 0,
     rendered |-> [calls |-> 0, current |-> 0, total |-> Double(0)],
     written |-> FALSE]

InitGrok ==
    /\ gworld \in GrokWorlds
    /\ g = GrokFresh

InitGrokLong ==
    /\ gworld \in {w \in GrokLongWorlds : w.nEv[197] = 0 => w.nDiv[21] = 0}
    /\ g = GrokFresh

GrokIdle ==
    /\ gworld = [nEv |-> [s \in SeasonIds |-> 0], nDiv |-> [e \in AllEvents |-> 0],
                 start |-> [e \in AllEvents |-> 1]]
    /\ g = GrokFresh

\* ---- renderProgress ------------------------------------------------------

\* const filled = Math.floor((current / total) * width)
Filled(current, total) ==
    Floor(Times(Divide(Double(current), total), Double(ProgressWidth)))

\* '█'.repeat(filled) + '-'.repeat(width - filled) throws a RangeError for an
\* infinite or a negative count; a NaN count repeats nothing.  The division
\* and the multiplication round monotonically, so that current <= total gives
\* a quotient of at most 1 and a count of at most width.
RenderThrows(current, total) ==
    /\ Less(total, Double(current))
    /\ LET filled == Filled(current, total)
       IN filled.kind = "inf" \/ Less(Double(ProgressWidth), filled)

\* ---- the match loop of rateSeason ----------------------------------------

\* A history that keeps the latest snapshot only.
PushHistoryLatest(history, n, m, belief) ==
    [k \in DOMAIN history \cup {n} |->
        IF k = n THEN <<[match_id |-> m.id, scheduled |-> m.scheduled, belief |-> belief]>>
        ELSE history[k]]

\* hist.push({match_id, scheduled, mu, sigma}); teamHistory.set(n, hist)
PushHistory(history, n, m, belief) ==
    LET hist == IF n \in DOMAIN history THEN history[n] ELSE <<>>
        snap == [match_id |-> m.id, scheduled |-> m.scheduled, belief |-> belief]
    IN [k \in DOMAIN history \cup {n} |-> IF k = n THEN Append(hist, snap) ELSE history[k]]

\* One pass of the loop body; threw says that renderProgress threw.
RateMatch(st, m) ==
    IF ~m.red.present \/ ~m.blue.present THEN [g |-> st, threw |-> FALSE]
    ELSE LET redTeams == LinkedTeams(m.red)
             blueTeams == LinkedTeams(m.blue)
         IN
         IF Len(redTeams) # 2 \/ Len(blueTeams) # 2 THEN [g |-> st, threw |-> FALSE]
         ELSE LET redRatings == [i \in 1 .. 2 |-> RatingOf(st.teamRatings, redTeams[i])]
                  blueRatings == [i \in 1 .. 2 |-> RatingOf(st.teamRatings, blueTeams[i])]
                  new == Rate(redRatings, blueRatings, Ranks(m.red, m.blue), m.id)
                  r1 == SetRating(st.teamRatings, redTeams[1], new[1][1])
                  r2 == SetRating(r1, redTeams[2], new[1][2])
                  r3 == SetRating(r2, blueTeams[1], new[2][1])
                  r4 == SetRating(r3, blueTeams[2], new[2][2])
                  h1 == PushHistory(st.teamHistory, redTeams[1], m, new[1][1])
                  h2 == PushHistory(h1, redTeams[2], m, new[1][2])
                  h3 == PushHistory(h2, blueTeams[1], m, new[2][1])
                  h4 == PushHistory(h3, blueTeams[2], m, new[2][2])
                  st1 == [st EXCEPT !.teamRatings = r4,
                                    !.teamHistory = h4,
                                    !.applied = Append(@, [season |-> SeasonsToRate[st.sIdx].id,
                                                           id |-> m.id,
                                                           teams |-> {redTeams[1], redTeams[2],
                                                                      blueTeams[1], blueTeams[2]},
                                                           scheduled |-> m.scheduled,
                                                           round |-> m.round,
                                                           matchnum |-> m.matchnum]),
                                    !.processedMatches = @ + 1]
                  \* renderProgress(progressOffset + processedMatches, totalMatches)
                  current == st1.progressOffset + st1.processedMatches
              IN [g |-> [st1 EXCEPT !.rendered = [calls |-> 1, current |-> current,
                                                  total |-> st1.totalMatches]],
                  threw |-> RenderThrows(current, st1.totalMatches)]

\* for (const m of allMatches) { ... }
RECURSIVE RateMatches(_, _)
RateMatches(st, ms) ==
    IF ms = <<>> THEN [g |-> st, threw |-> FALSE]
    ELSE LET one == RateMatch(st, Head(ms)) IN
         IF one.threw THEN one ELSE RateMatches(one.g, Tail(ms))

\* ---- computeTrueSkills: the season loop and the output -------------------

\* rateSeason(season, ...) up to its await: fetchAll('/events', ...).
StartRateSeason(st, k) ==
    [st EXCEPT !.sIdx = k, !.rPc = "events", !.events = <<>>, !.eIdx = 0,
               !.pending = {}, !.matchCount = 0, !.processedMatches = 0]

\* After the loop: no history is a fatal error; otherwise fs.writeFileSync
\* writes the file, or throws (ok = FALSE: the path cannot be written), and
\* then the catch at the bottom of the file exits the process with code 1.
GrokFinish(st, ok) ==
    IF Cardinality(DOMAIN st.teamHistory) = 0
    THEN [st EXCEPT !.main = "failed", !.rPc = "none", !.fatal = "No scored matches found"]
    ELSE IF ok THEN [st EXCEPT !.main = "done", !.rPc = "none", !.written = TRUE]
    ELSE [st EXCEPT !.main = "failed", !.rPc = "none", !.fatal = "write"]

\* for (let i = 0; i < seasonsToRate.length; i++): the next season, or the end.
AfterSeason(st, ok) ==
    IF st.sIdx < Len(SeasonsToRate) THEN StartRateSeason(st, st.sIdx + 1)
    ELSE GrokFinish(st, ok)

\* rateSeason returned { teamCount, matchCount }.
SeasonReturned(st, teamCount, matchCount, ok) ==
    AfterSeason([st EXCEPT !.totalTeams = IF teamCount # 0 THEN Max(@, teamCount) ELSE @,
                           !.progressOffset = @ + matchCount], ok)

\* rateSeason threw: catch (e) { console.warn(...) }; the events of the season
\* that the loop had not reached are never fetched.
SeasonThrew(st, ok) ==
    AfterSeason([st EXCEPT !.skipped =
                    @ \cup {st.events[i].id : i \in st.eIdx + 1 .. Len(st.events)},
                           !.threw = @ \cup {SeasonsToRate[st.sIdx].id}], ok)

\* for (const ev of events): the divisions of the next event are requested,
\* or rateSeason returns.
NextEvent(st, ok) ==
    IF st.eIdx < Len(st.events)
    THEN [st EXCEPT !.eIdx = @ + 1, !.rPc = "divisions", !.pending = {}]
    ELSE SeasonReturned(st, Cardinality(DOMAIN st.teamRatings), st.matchCount, ok)

\* Promise.all resolved with divisionMatches: flat, count, rate, go on.
RateEvent(st, divisionMatches, ok) ==
    LET allMatches == Flat(divisionMatches)
        st1 == [st EXCEPT !.divisionMatches = divisionMatches,
                          !.allMatches = allMatches,
                          !.matchCount = @ + Len(allMatches)]
        rated == RateMatches(st1, allMatches)
    IN IF rated.threw THEN SeasonThrew(rated.g, ok) ELSE NextEvent(rated.g, ok)

\* ---- the turns -------------------------------------------------------------

\* initModules: the token check returns; computeTrueSkills clears the maps and
\* requests /seasons.
TokenCheckArrives ==
    /\ g.main = "init"
    /\ g' = [g EXCEPT !.main = "seasons",
                      !.teamRatings = [n \in {} |-> <<>>],
                      !.teamHistory = [n \in {} |-> <<>>]]
    /\ UNCHANGED gworld

\* /seasons arrives: ordered, the High Stakes index, seasonsToRate.
GrokSeasonsArrive ==
    /\ g.main = "seasons"
    /\ g' = IF HighStakesIndex = 0
            THEN [g EXCEPT !.main = "failed", !.fatal = "High Stakes season not found"]
            ELSE [g EXCEPT !.main = "precompute", !.preIdx = 1]
    /\ UNCHANGED gworld

\* The matches of the first BATCH_SIZE events of a season, in the server's order.
RECURSIVE SampleMatches(_, _)
SampleMatches(events, i) ==
    IF i > Len(events) \/ i > BATCH_SIZE THEN 0
    ELSE LET e == events[i].id
             RECURSIVE InDivisions(_)
             InDivisions(d) ==
                 IF d > Len(GrokDivisionsOf(e)) THEN 0
                 ELSE Len(GrokMatchesOf(e, d)) + InDivisions(d + 1)
         IN InDivisions(1) + SampleMatches(events, i + 1)

\* seasonMatches * (events.length / Math.min(events.length, BATCH_SIZE)): 0/0
\* is NaN.
Estimate(events) ==
    Times(Double(SampleMatches(events, 1)),
          Divide(Double(Len(events)), Double(Min(Len(events), BATCH_SIZE))))

\* totalMatches += matchCounts[matchCounts.length - 1]
AddEstimate(total, x) == Plus(total, x)

\* The estimate of one season is in; after the last one the rating starts.
EstimateSeason ==
    /\ g.main = "precompute"
    /\ LET events == GrokEventsOf(SeasonsToRate[g.preIdx].id)
           st == [g EXCEPT !.totalMatches = AddEstimate(@, Estimate(events))]
       IN g' = IF g.preIdx < Len(SeasonsToRate)
               THEN [st EXCEPT !.preIdx = @ + 1]
               ELSE StartRateSeason([st EXCEPT !.main = "rating", !.progressOffset = 0,
                                               !.totalTeams = 0], 1)
    /\ UNCHANGED gworld

\* The fetches that can be in flight before the rating starts: the token
\* check, /seasons, and in the estimate of a season its events, the divisions
\* of a sampled event, the matches of a division of a sampled event.
SetupInFlight(kind) ==
    \/ kind = "token" /\ g.main = "init"
    \/ kind = "seasons" /\ g.main = "seasons"
    \/ /\ g.main = "precompute"
       /\ LET events == GrokEventsOf(SeasonsToRate[g.preIdx].id)
              sampled == {events[i].id : i \in 1 .. Min(Len(events), BATCH_SIZE)}
          IN \/ kind = "events"
             \/ kind = "divisions" /\ sampled # {}
             \/ kind = "matches" /\ \E e \in sampled : Len(GrokDivisionsOf(e)) > 0

GrokFetchKinds == {"token", "seasons", "events", "divisions", "matches"}

\* A fetch of the token check, of /seasons or of the estimate phase throws:
\* the catch at the bottom of the file exits the process.
GrokSetupFails(kind) ==
    /\ SetupInFlight(kind)
    /\ g' = [g EXCEPT !.main = "failed", !.failed = kind, !.fatal = "fetch"]
    /\ UNCHANGED gworld

\* rateSeason: the events arrive; none: return, otherwise sort by start.
GrokEventsArrive ==
    /\ g.main = "rating" /\ g.rPc = "events"
    /\ \E ok \in BOOLEAN :
       LET events == GrokEventsOf(SeasonsToRate[g.sIdx].id)
           st == [g EXCEPT !.lastArrived = 0]
       IN
       g' = IF Len(events) = 0 THEN SeasonReturned(st, 0, 0, ok)
            ELSE NextEvent([st EXCEPT !.events = SortByStart(events), !.eIdx = 0], ok)
    /\ UNCHANGED gworld

\* rateSeason: fetchAll('/events') throws, and so does rateSeason.
GrokEventsFail ==
    /\ g.main = "rating" /\ g.rPc = "events"
    /\ \E ok \in BOOLEAN :
       g' = SeasonThrew([g EXCEPT !.failed = "events", !.lastArrived = 0], ok)
    /\ UNCHANGED gworld

\* rateSeason: the divisions of the event arrive; Promise.all starts the fetch
\* of every division's matches at once (of none: it resolves with []).
GrokDivisionsArrive ==
    /\ g.main = "rating" /\ g.rPc = "divisions"
    /\ \E ok \in BOOLEAN :
       LET divisions == GrokDivisionsOf(g.events[g.eIdx].id)
           st == [g EXCEPT !.lastArrived = 0]
       IN
       g' = IF Len(divisions) = 0 THEN RateEvent(st, <<>>, ok)
            ELSE [st EXCEPT !.rPc = "matches",
                            !.pending = {divisions[i] : i \in DOMAIN divisions}]
    /\ UNCHANGED gworld

\* rateSeason: the divisions fetch throws: catch { continue }.
GrokDivisionsFail ==
    /\ g.main = "rating" /\ g.rPc = "divisions"
    /\ \E ok \in BOOLEAN :
       g' = NextEvent([g EXCEPT !.failed = "divisions", !.lastArrived = 0], ok)
    /\ UNCHANGED gworld

\* rateSeason: the matches of division d arrive and are sorted; with the last
\* division Promise.all resolves, in the order of divisions.
GrokMatchesArrive(d) ==
    /\ g.main = "rating" /\ g.rPc = "matches"
    /\ d \in g.pending
    /\ \E ok \in BOOLEAN :
       LET e == g.events[g.eIdx].id
           divisions == GrokDivisionsOf(e)
       IN g' = IF g.pending = {d}
               THEN RateEvent([g EXCEPT !.pending = {}, !.lastArrived = d],
                              [i \in DOMAIN divisions |->
                                  SortByRound(GrokMatchesOf(e, divisions[i]))], ok)
               ELSE [g EXCEPT !.pending = @ \ {d}]
    /\ UNCHANGED gworld

\* rateSeason: the matches fetch of a division throws: Promise.all rejects and
\* rateSeason throws; the other fetches of the event are left to themselves.
GrokMatchesFail(d) ==
    /\ g.main = "rating" /\ g.rPc = "matches"
    /\ d \in g.pending
    /\ \E ok \in BOOLEAN :
       g' = SeasonThrew([g EXCEPT !.pending = {}, !.failed = "matches"], ok)
    /\ UNCHANGED gworld

(***************************************************************************)
(* Part 6 - the validity filter of doMatch (build_ratings.js) and of the   *)
(* match loop of rateSeason (grok_build_ratings.js), on any match record   *)
(***************************************************************************)

VARIABLES
    vfPc,         \* "input", then the file whose code was given the match
    vfMatch,      \* the match record
    vfRun0,       \* build_ratings.js: the state before doMatch(m)
    vfRun,        \* build_ratings.js: the state, after doMatch(m) once it ran
    vfG0,         \* grok_build_ratings.js: the state before the loop body
    vfG           \* grok_build_ratings.js: the state, after the loop body once it ran

filterVars == <<vfPc, vfMatch, vfRun0, vfRun, vfG0, vfG>>

\* The teams arrays a side can carry: no entry, one, two or three entries,
\* with and without an entry that has no team link.
TeamLists(x, y, z) ==
    {<<>>, <<x>>, <<NoLink>>, <<x, y>>, <<x, NoLink>>, <<NoLink, NoLink>>,
     <<x, y, z>>, <<x, y, NoLink>>, <<x, NoLink, NoLink>>}

\* The match records the service can answer with.
MatchShapes ==
    {[id |-> 7, round |-> 2, matchnum |-> 7, scheduled |-> 7, red |-> r, blue |-> b] :
        r \in {NoAlliance} \cup {Alliance(t, sc) : t \in TeamLists(<<"A">>, <<"B">>, <<"E">>),
                                                  sc \in {0, 1, 2}},
        b \in {NoAlliance} \cup {Alliance(t, 1) : t \in TeamLists(<<"C">>, <<"D">>, <<"F">>)}}

\* A match rated earlier in the run, so that beliefs and histories exist.
EarlierMatch ==
    [id |-> 3, round |-> 2, matchnum |-> 3, scheduled |-> 3,
     red |-> Alliance(<<<<"A">>, <<"C">>>>, 2), blue |-> Alliance(<<<<"B">>, <<"D">>>>, 1)]

\* build_ratings.js in a season of one event before the matches of a division
\* arrive; doDivision counts them, addWork(matches.length), before it rates them.
RunRating == [FreshRun EXCEPT !.main = "rating", !.sIdx = 1, !.sPc = "mapping",
                              !.total = 1, !.done = 0, !.stats.seasons = 1]

\* grok_build_ratings.js inside the match loop of the first season, the
\* estimate of a later season without events having made totalMatches NaN.
GrokRating == [GrokFresh EXCEPT !.main = "rating", !.sIdx = 1, !.rPc = "matches",
                                !.totalMatches = NotANumber]

InitFilter ==
    /\ vfPc = "input"
    /\ vfMatch \in MatchShapes
    /\ vfRun0 \in {AddWork(RunRating, 2), DoMatch(AddWork(RunRating, 2), EarlierMatch)}
    /\ vfG0 \in {GrokRating, RateMatch(GrokRating, EarlierMatch).g}
    /\ vfRun = vfRun0
    /\ vfG = vfG0

\* Bound of the scores of the rank probe.
MaxScore == 6

\* The valid matches A, B against C, D with every pair of scores.
ScoredMatches ==
    {[id |-> 7, round |-> 2, matchnum |-> 7, scheduled |-> 7,
      red |-> Alliance(<<<<"A">>, <<"B">>>>, r), blue |-> Alliance(<<<<"C">>, <<"D">>>>, b)] :
        r \in 0 .. MaxScore, b \in 0 .. MaxScore}

\* A scored match is given to either file, no match having been rated before.
InitRanks ==
    /\ vfPc = "input"
    /\ vfMatch \in ScoredMatches
    /\ vfRun0 = AddWork(RunRating, 1)
    /\ vfG0 = GrokRating
    /\ vfRun = vfRun0
    /\ vfG = vfG0

FilterIdle ==
    /\ vfPc = "idle"
    /\ vfMatch = EarlierMatch
    /\ vfRun0 = RunRating
    /\ vfG0 = GrokRating
    /\ vfRun = RunRating
    /\ vfG = GrokRating

\* build_ratings.js: doMatch(m)
FilterBuild ==
    /\ vfPc = "input"
    /\ vfRun' = DoMatch(vfRun0, vfMatch)
    /\ vfPc' = "build_ratings"
    /\ UNCHANGED <<vfMatch, vfRun0, vfG0, vfG>>

\* grok_build_ratings.js: one pass of for (const m of allMatches)
FilterGrok ==
    /\ vfPc = "input"
    /\ vfG' = RateMatch(vfG0, vfMatch).g
    /\ vfPc' = "grok_build_ratings"
    /\ UNCHANGED <<vfMatch, vfRun0, vfRun, vfG0>>

(***************************************************************************)
(* Part 7 - build_ratings.js doMatch on an ordered stream of matches, from  *)
(* fresh priors                                                            *)
(***************************************************************************)

\* Bound of the stream model: the longest stream.
MaxStream == 3

VARIABLES
    stream,       \* the matches, in the order in which they are applied
    streamPos,    \* the next match of the stream
    streamRun,    \* build_ratings.js: the state, ratings starts as new Map()
    streamFile,   \* the file whose code is given the stream
    streamG       \* grok_build_ratings.js: the state, the maps start empty

streamVars == <<stream, streamPos, streamRun, streamFile, streamG>>

\* A side is made of two teams: each competitor plays with its partner.
Partner(n) ==
    CASE n = <<"A">> -> <<"E">> [] n = <<"B">> -> <<"F">> [] n = <<"C">> -> <<"G">> [] n = <<"D">> -> <<"H">>

\* The i-th match of a stream of results [red, blue, score]: red scored
\* score, blue scored 1.
StreamMatch(results, i) ==
    [id |-> i, round |-> 2, matchnum |-> i, scheduled |-> i,
     red |-> Alliance(<<results[i].red, Partner(results[i].red)>>, results[i].score),
     blue |-> Alliance(<<results[i].blue, Partner(results[i].blue)>>, 1)]

\* The pairings of the four competitors.
Pairings ==
    {<<<<"A">>, <<"B">>>>, <<<<"A">>, <<"C">>>>, <<<<"A">>, <<"D">>>>, <<<<"B">>, <<"C">>>>, <<<<"B">>, <<"D">>>>, <<<<"C">>, <<"D">>>>}

\* The results of a match: red loses, ties or wins.
Results ==
    {[red |-> pr[1], blue |-> pr[2], score |-> sc] : pr \in Pairings, sc \in {0, 1, 2}}

Streams == UNION {[1 .. n -> Results] : n \in 1 .. MaxStream}

InitStream ==
    /\ stream \in Streams
    /\ streamPos = 1
    /\ streamRun = AddWork(RunRating, Len(stream))
    /\ streamFile = "build_ratings"
    /\ streamG = GrokRating

\* The stream is given to either file.
InitStreamFiles ==
    /\ stream \in Streams
    /\ streamPos = 1
    /\ streamRun = AddWork(RunRating, Len(stream))
    /\ streamFile \in {"build_ratings", "grok_build_ratings"}
    /\ streamG = GrokRating

StreamIdle ==
    /\ stream = <<>>
    /\ streamPos = 0
    /\ streamRun = RunRating
    /\ streamFile = "none"
    /\ streamG = GrokRating

\* doMatch(m) for the next match of the stream.
StreamApply ==
    /\ streamFile = "build_ratings"
    /\ streamPos \in DOMAIN stream
    /\ streamRun' = DoMatch(streamRun, StreamMatch(stream, streamPos))
    /\ streamPos' = streamPos + 1
    /\ UNCHANGED <<stream, streamFile, streamG>>

\* One pass of for (const m of allMatches) for the next match of the stream.
StreamApplyGrok ==
    /\ streamFile = "grok_build_ratings"
    /\ streamPos \in DOMAIN stream
    /\ streamG' = RateMatch(streamG, StreamMatch(stream, streamPos)).g
    /\ streamPos' = streamPos + 1
    /\ UNCHANGED <<stream, streamFile, streamRun>>

\* The requests a call has started so far.
Requests(c) == Cardinality({i \in DOMAIN sent : sent[i].caller = c})

\* The number of retryable failures the server answered before anything else.
RECURSIVE LeadingRetryable(_)
LeadingRetryable(a) ==
    IF a = <<>> \/ ~(Head(a) = 429 \/ Head(a) >= 500) THEN 0
    ELSE 1 + LeadingRetryable(Tail(a))

(***************************************************************************)
(* Part 2 - fetchAll: the paginator of build_ratings.js,                   *)
(* grok_build_ratings.js and export_matches.js                             *)
(***************************************************************************)

\* Bounds of the pagination model.
MaxPages == 3
MaxPageLen == 1

Items == {"a", "b"}
Variants == {"build_ratings", "grok_build_ratings", "export_matches"}

SeqsUpTo(S, n) == UNION {[1 .. k -> S] : k \in 0 .. n}

RECURSIVE Concat(_)
Concat(ss) == IF ss = <<>> THEN <<>> ELSE Head(ss) \o Concat(Tail(ss))

VARIABLES
    variant,      \* which file's fetchAll runs
    pages,        \* the remote collection, page by page
    noMetaPage,   \* the page whose response lacks meta (0: none)
    faPc,         \* where the fetchAll call stands
    page,         \* the local p / page
    out,          \* the local out
    isDone,       \* the local done
    requested,    \* the page numbers requested so far, in order
    returned,     \* what fetchAll returned or threw
    apiError      \* the error the awaited apiFetch threw, if it threw

pageVars == <<variant, pages, noMetaPage, faPc, page, out, isDone, requested, returned,
              apiError>>

\* What apiFetch throws: new Error(`API ${status}: ...`) or the error of fetch.
ApiErrors == {"API 404", "API 503", "fetch failed"}

\* The response of the server to a request for page p; meta is read only
\* when hasMeta says the response carries it.
ServerPage(p) ==
    [data |-> IF p \in DOMAIN pages THEN pages[p] ELSE <<>>,
     hasMeta |-> p # noMetaPage,
     meta |-> [current_page |-> p, last_page |-> Len(pages)]]

\* r.meta.current_page >= r.meta.last_page
ReachedLastPageStrict(meta) == meta.current_page > meta.last_page
ReachedLastPage(meta) == meta.current_page >= meta.last_page

InitPage ==
    /\ variant \in Variants
    /\ pages \in (SeqsUpTo(SeqsUpTo(Items, MaxPageLen), MaxPages) \ {<<>>})
    /\ noMetaPage \in 0 .. Len(pages)
    /\ faPc = "idle"
    /\ page = 0
    /\ out = <<>>
    /\ isDone = FALSE
    /\ requested = <<>>
    /\ returned = Undefined
    /\ apiError = Undefined

PageIdle ==
    /\ variant = "build_ratings"
    /\ pages = <<>>
    /\ noMetaPage = 0
    /\ faPc = "idle"
    /\ page = 0
    /\ out = <<>>
    /\ isDone = FALSE
    /\ requested = <<>>
    /\ returned = Undefined
    /\ apiError = Undefined

\* await apiFetch(endpoint, {...params, page, per_page})
RequestPage(p) ==
    /\ requested' = Append(requested, p)
    /\ faPc' = "awaiting"
    /\ UNCHANGED returned

ReturnOut(o) ==
    /\ faPc' = "returned"
    /\ returned' = [value |-> o]
    /\ UNCHANGED requested

\* A fetchAll that would swallow the error and return what it has.
ThrowErrorPartial(e) ==
    /\ faPc' = "returned"
    /\ returned' = [value |-> out]
    /\ UNCHANGED requested

\* The call ends by throwing e.
ThrowError(e) ==
    /\ faPc' = "failed"
    /\ returned' = [error |-> e]
    /\ UNCHANGED requested

\* fetchAll is called: the loop is entered and page 1 is requested.
FetchAllCall ==
    /\ faPc = "idle"
    /\ page' = 1
    /\ out' = <<>>
    /\ isDone' = FALSE
    /\ RequestPage(1)
    /\ UNCHANGED <<variant, pages, noMetaPage, apiError>>

\* build_ratings.js fetchAll, from the response to the next await or the return.
BuildPage(r) ==
    /\ out' = out \o r.data
    /\ IF ~r.hasMeta
       THEN ThrowError("TypeError") /\ UNCHANGED <<isDone, page>>
       ELSE /\ isDone' = ReachedLastPage(r.meta)
            /\ page' = page + 1
            /\ IF isDone' THEN ReturnOut(out') ELSE RequestPage(page')

\* grok_build_ratings.js fetchAll, from the response to the 200 ms throttle.
GrokPage(r) ==
    /\ out' = out \o r.data
    /\ IF ~r.hasMeta
       THEN ThrowError("TypeError") /\ UNCHANGED <<isDone, page>>
       ELSE /\ isDone' = ReachedLastPage(r.meta)
            /\ page' = page + 1
            /\ faPc' = "throttle"
            /\ UNCHANGED <<requested, returned>>

\* export_matches.js fetchAll, from the response to the next await or the return.
ExportPage(r) ==
    /\ out' = out \o r.data
    /\ UNCHANGED isDone
    /\ IF ~r.hasMeta \/ ReachedLastPage(r.meta)
       THEN ReturnOut(out') /\ UNCHANGED page
       ELSE page' = page + 1 /\ RequestPage(page')

\* The awaited apiFetch resolves with the page.
PageArrives ==
    /\ faPc = "awaiting"
    /\ LET r == ServerPage(page) IN
       CASE variant = "build_ratings" -> BuildPage(r)
         [] variant = "grok_build_ratings" -> GrokPage(r)
         [] variant = "export_matches" -> ExportPage(r)
    /\ UNCHANGED <<variant, pages, noMetaPage, apiError>>

\* The awaited apiFetch throws: fetchAll has no handler and throws the same.
PageFails(e) ==
    /\ faPc = "awaiting"
    /\ apiError' = e
    /\ ThrowError(e)
    /\ UNCHANGED <<variant, pages, noMetaPage, page, out, isDone>>

\* grok_build_ratings.js: await setTimeout(200) is over; test the loop condition.
ThrottleDone ==
    /\ faPc = "throttle"
    /\ IF isDone THEN ReturnOut(out) ELSE RequestPage(page)
    /\ UNCHANGED <<variant, pages, noMetaPage, page, out, isDone, apiError>>

NextPage ==
    \/ FetchAllCall
    \/ PageArrives
    \/ \E e \in ApiErrors : PageFails(e)
    \/ ThrottleDone

(***************************************************************************)
(* Part 8 - apiFetch of export_matches.js and of skills_gen.js: the same   *)
(* code in both files, a recursive call with one retry less after a 429    *)
(***************************************************************************)

\* Bound of this part: the largest retries argument.  The callers
\* (fetchAll) leave the default, retries = 3.
MaxRetriesArg == 3

VARIABLES
    fetchFile,    \* the file whose apiFetch runs
    retries,      \* the parameter retries of the innermost call
    retriesArg,   \* the retries the outermost call was given
    fetchPc,      \* where the call stands
    responses     \* the statuses answered so far, one for each request

exportVars == <<fetchFile, retries, retriesArg, fetchPc, responses>>

ExportFiles == {"export_matches", "skills_gen"}

\* What the server may answer.
ExportStatuses == {200, 400, 404, 429, 500, 502, 503}

\* apiFetch(endpoint, params, retries) up to await sleep(500).
InitExport ==
    /\ fetchFile \in ExportFiles
    /\ retriesArg \in 0 .. MaxRetriesArg
    /\ retries = retriesArg
    /\ fetchPc = "sleep500"
    /\ responses = <<>>

ExportIdle ==
    /\ fetchFile = "none"
    /\ retriesArg = 0
    /\ retries = 0
    /\ fetchPc = "idle"
    /\ responses = <<>>

\* sleep(500) is over: const res = await fetch(url, { headers: HEADERS }).
ExportFetch ==
    /\ fetchPc = "sleep500"
    /\ fetchPc' = "fetching"
    /\ UNCHANGED <<fetchFile, retries, retriesArg, responses>>

\* res.status === 429
RetriedStatus(status) == status = 429

\* The response arrives: sleep 10 s and call again, throw, or return.
ExportRespond(status) ==
    /\ fetchPc = "fetching"
    /\ responses' = Append(responses, status)
    /\ fetchPc' = IF RetriedStatus(status) /\ retries > 0 THEN "sleep10000"
                  ELSE IF ~Ok(status) THEN "thrown"
                  ELSE "returned"
    /\ UNCHANGED <<fetchFile, retries, retriesArg>>

\* sleep(10000) is over: return apiFetch(endpoint, params, retries - 1).
ExportRetry ==
    /\ fetchPc = "sleep10000"
    /\ retries' = retries - 1
    /\ fetchPc' = "sleep500"
    /\ UNCHANGED <<fetchFile, retriesArg, responses>>

(***************************************************************************)
(* Part 9 - the upload of the skills to Firestore: main of skills_gen.js   *)
(* and main of unnamed/part_002, from const db = initializeFirebase()      *)
(*                                                                         *)
(* One step is one turn of the event loop: the for loop runs from one      *)
(* await batch.commit() to the next.  Both files import firebase-admin and *)
(* take db from getFirestore(); the library is not part of the repository. *)
(* What the model uses of it: a CollectionReference offers doc() and no    *)
(* document(); a WriteBatch on which commit() was called, whether the      *)
(* commit succeeded or failed, throws on every further set() or update();  *)
(* commit() itself may be called again and submits the same writes.        *)
(***************************************************************************)

\* Bound of the upload model: the largest number of teams.
MaxTeams == 1001

\* if (batchCount === 500)
BatchLimit == 500

VARIABLES
    uploadFile,       \* the file whose main runs
    db,               \* what initializeFirebase() returned
    teamSkillsData,   \* the number of teams in teamSkillsData
    up                \* the locals of main and what was submitted so far

uploadVars == <<uploadFile, db, teamSkillsData, up>>

UploadFiles == {"skills_gen", "part_002"}

\* initializeFirebase() returns null, or the Firestore handle of
\* getFirestore().
Handles == {"null", "firestore"}

\* db.batch()
NewBatch == [writes |-> 0, committed |-> FALSE]

\* let batch = db.batch(); let batchCount = 0; let updatedTeams = 0;
UploadFresh ==
    [pc |-> "start", i |-> 0, batch |-> NewBatch, batchCount |-> 0,
     updatedTeams |-> 0, submitted |-> <<>>, failures |-> 0]

InitUpload ==
    /\ uploadFile \in UploadFiles
    /\ db \in Handles
    /\ teamSkillsData \in 0 .. MaxTeams
    /\ up = UploadFresh

UploadIdle ==
    /\ uploadFile = "none"
    /\ db = "null"
    /\ teamSkillsData = 0
    /\ up = UploadFresh

\* db.collection('leaderboard').document(team.teamNumber) in skills_gen.js,
\* .doc(team.teamNumber) in part_002: whether the call throws.  document is
\* undefined on the collection of the Node library, so that calling it is a
\* TypeError; every other Firestore call of the repository uses doc()
\* (part_002 line 220, api/index.js line 33).
DocRefThrows == uploadFile = "skills_gen"

\* batch.update(docRef, ...) in skills_gen.js, batch.set(docRef, ..., { merge:
\* true }) in part_002: whether the call throws.  The WriteBatch of the
\* library checks in set() and update() that commit() was not called on it
\* ("Cannot modify a WriteBatch that has been committed").
WriteThrows(batch) == batch.committed

\* batch.commit() is called: the batch is submitted with the writes it holds.
Submit(st, at) ==
    [st EXCEPT !.pc = at, !.batch.committed = TRUE,
               !.submitted = Append(@, st.batch.writes)]

\* if (batchCount > 0) { try { await batch.commit(); ...
AfterLoop(st) ==
    IF st.batchCount > 0 THEN Submit(st, "final") ELSE [st EXCEPT !.pc = "done"]

\* The number of passes of the loop from team i on in which neither does
\* batchCount === 500 hold after batchCount++ nor do the teams run out:
\* batchCount rises by one in each pass, so it meets 500 after
\* 500 - batchCount passes when it is below 500, and never when it is not.
Passes(st) ==
    LET remaining == teamSkillsData - st.i
        toLimit == BatchLimit - st.batchCount
    IN IF toLimit >= 1 /\ toLimit <= remaining THEN toLimit ELSE remaining

\* for (const team of teamSkillsData) { ... }: from team i on, up to the
\* next await, an exception, or the end of the loop.  Each pass adds one
\* write to the batch and one to batchCount.
UploadLoop(st) ==
    IF st.i >= teamSkillsData THEN AfterLoop(st)
    ELSE IF DocRefThrows \/ WriteThrows(st.batch) THEN [st EXCEPT !.pc = "threw"]
    ELSE LET k == Passes(st)
             st1 == [st EXCEPT !.i = @ + k, !.batch.writes = @ + k,
                               !.batchCount = @ + k]
         IN IF st1.batchCount = BatchLimit THEN Submit(st1, "commit")
            ELSE AfterLoop(st1)

\* const db = initializeFirebase(); if (!db) {...} else { the loop }
UploadStart ==
    /\ up.pc = "start"
    /\ up' = IF db = "null" THEN [up EXCEPT !.pc = "done"] ELSE UploadLoop(up)
    /\ UNCHANGED <<uploadFile, db, teamSkillsData>>

\* The batch main goes on with after a commit inside the loop succeeded:
\* skills_gen.js keeps its const batch, the committed one; part_002 assigns
\* batch = db.batch().
BatchAfterCommit(batch) ==
    IF uploadFile = "part_002" THEN NewBatch ELSE batch

\* The same without batchCount = 0.
CommittedCountKept(st) ==
    [st EXCEPT !.updatedTeams = @ + st.batchCount, !.batch = BatchAfterCommit(@)]

\* updatedTeams += batchCount; batchCount = 0; (batch = db.batch();)
Committed(st) ==
    [st EXCEPT !.updatedTeams = @ + st.batchCount, !.batchCount = 0,
               !.batch = BatchAfterCommit(@)]

\* await batch.commit() inside the loop fulfils, and the loop goes on.
CommitSucceeds ==
    /\ up.pc = "commit"
    /\ up' = UploadLoop(Committed(up))
    /\ UNCHANGED <<uploadFile, db, teamSkillsData>>

\* await batch.commit() inside the loop rejects: catch (error) logs it, and
\* the loop goes on.
CommitFails ==
    /\ up.pc = "commit"
    /\ up' = UploadLoop([up EXCEPT !.failures = @ + 1])
    /\ UNCHANGED <<uploadFile, db, teamSkillsData>>

\* The commit after the loop fulfils: updatedTeams += batchCount.
FinalCommitSucceeds ==
    /\ up.pc = "final"
    /\ up' = [up EXCEPT !.pc = "done", !.updatedTeams = @ + up.batchCount]
    /\ UNCHANGED <<uploadFile, db, teamSkillsData>>

\* The commit after the loop rejects: catch (error) logs it.
FinalCommitFails ==
    /\ up.pc = "final"
    /\ up' = [up EXCEPT !.pc = "done", !.failures = @ + 1]
    /\ UNCHANGED <<uploadFile, db, teamSkillsData>>

vars == <<paceVars, pageVars, mlVars, buildVars, grokVars, filterVars, streamVars,
          exportVars, uploadVars>>

(***************************************************************************)
(* The specifications. Each runs one part and leaves the others idle.      *)
(***************************************************************************)

PaceFrame == UNCHANGED <<pageVars, mlVars, buildVars, grokVars, filterVars, streamVars, exportVars,
        uploadVars>>
PageFrame == UNCHANGED <<paceVars, mlVars, buildVars, grokVars, filterVars, streamVars, exportVars,
        uploadVars>>
MlFrame == UNCHANGED <<paceVars, pageVars, buildVars, grokVars, filterVars, streamVars, exportVars,
        uploadVars>>
BuildFrame == UNCHANGED <<paceVars, pageVars, mlVars, grokVars, filterVars, streamVars, exportVars,
        uploadVars>>
GrokFrame == UNCHANGED <<paceVars, pageVars, mlVars, buildVars, filterVars, streamVars, exportVars,
        uploadVars>>
FilterFrame == UNCHANGED <<paceVars, pageVars, mlVars, buildVars, grokVars, streamVars, exportVars,
        uploadVars>>
ExportFrame == UNCHANGED <<paceVars, pageVars, mlVars, buildVars, grokVars, filterVars, streamVars,
        uploadVars>>
UploadFrame == UNCHANGED <<paceVars, pageVars, mlVars, buildVars, grokVars, filterVars, streamVars,
        exportVars>>
StreamFrame == UNCHANGED <<paceVars, pageVars, mlVars, buildVars, grokVars, filterVars, exportVars,
        uploadVars>>

PaceStep ==
    \/ \E c \in Callers : Call(c) /\ PaceFrame
    \/ \E c \in Callers : PaceWake(c) /\ PaceFrame
    \/ \E c \in Callers : Answer(c) /\ PaceFrame
    \/ \E c \in Callers : Retry(c) /\ PaceFrame
    \/ Advance /\ PaceFrame

PageStep ==
    \/ FetchAllCall /\ PageFrame
    \/ PageArrives /\ PageFrame
    \/ \E e \in ApiErrors : PageFails(e) /\ PageFrame
    \/ ThrottleDone /\ PageFrame

MapLimitStep ==
    \/ MapLimitCall /\ MlFrame
    \/ \E idx \in 0 .. MaxItems : TaskFulfils(idx) /\ MlFrame
    \/ \E idx \in 0 .. MaxItems : TaskRejects(idx) /\ MlFrame

BuildStep ==
    \/ SeasonsArrive /\ BuildFrame
    \/ EventsArrive /\ BuildFrame
    \/ \E e \in AllEvents : DivisionsArrive(e) /\ BuildFrame
    \/ \E ed \in AllDivs : MatchesArrive(ed[1], ed[2]) /\ BuildFrame
    \/ \E kind \in FetchKinds : FetchFails(kind) /\ BuildFrame
    \/ WriteDone /\ BuildFrame
    \/ WriteFails /\ BuildFrame

BuildCrowdStep ==
    \/ SeasonsArrive /\ BuildFrame
    \/ EventsArrive /\ BuildFrame
    \/ \E e \in CrowdEvents : DivisionsArrive(e) /\ BuildFrame
    \/ \E ed \in CrowdDivs : MatchesArrive(ed[1], ed[2]) /\ BuildFrame
    \/ \E kind \in FetchKinds : FetchFails(kind) /\ BuildFrame
    \/ WriteDone /\ BuildFrame
    \/ WriteFails /\ BuildFrame

BuildTwiceStep ==
    \/ BuildStep
    \/ RunAgain /\ BuildFrame

GrokStep ==
    \/ TokenCheckArrives /\ GrokFrame
    \/ GrokSeasonsArrive /\ GrokFrame
    \/ EstimateSeason /\ GrokFrame
    \/ \E kind \in GrokFetchKinds : GrokSetupFails(kind) /\ GrokFrame
    \/ GrokEventsArrive /\ GrokFrame
    \/ GrokEventsFail /\ GrokFrame
    \/ GrokDivisionsArrive /\ GrokFrame
    \/ GrokDivisionsFail /\ GrokFrame
    \/ \E d \in GrokDivisionIds : GrokMatchesArrive(d) /\ GrokFrame
    \/ \E d \in GrokDivisionIds : GrokMatchesFail(d) /\ GrokFrame

FilterStep ==
    \/ FilterBuild /\ FilterFrame
    \/ FilterGrok /\ FilterFrame

StreamStep ==
    \/ StreamApply /\ StreamFrame

StreamFilesStep ==
    \/ StreamApply /\ StreamFrame
    \/ StreamApplyGrok /\ StreamFrame

\* Either rating builder: the one that was started runs.
ExportStep ==
    \/ ExportFetch /\ ExportFrame
    \/ \E status \in ExportStatuses : ExportRespond(status) /\ ExportFrame
    \/ ExportRetry /\ ExportFrame

UploadStep ==
    \/ UploadStart /\ UploadFrame
    \/ CommitSucceeds /\ UploadFrame
    \/ CommitFails /\ UploadFrame
    \/ FinalCommitSucceeds /\ UploadFrame
    \/ FinalCommitFails /\ UploadFrame

RatersStep ==
    \/ runNo # 0 /\ SeasonsArrive /\ BuildFrame
    \/ runNo # 0 /\ EventsArrive /\ BuildFrame
    \/ \E e \in AllEvents : runNo # 0 /\ DivisionsArrive(e) /\ BuildFrame
    \/ \E ed \in AllDivs : runNo # 0 /\ MatchesArrive(ed[1], ed[2]) /\ BuildFrame
    \/ \E kind \in FetchKinds : runNo # 0 /\ FetchFails(kind) /\ BuildFrame
    \/ runNo # 0 /\ WriteDone /\ BuildFrame
    \/ runNo # 0 /\ WriteFails /\ BuildFrame
    \/ runNo = 0 /\ TokenCheckArrives /\ GrokFrame
    \/ runNo = 0 /\ GrokSeasonsArrive /\ GrokFrame
    \/ runNo = 0 /\ EstimateSeason /\ GrokFrame
    \/ \E kind \in GrokFetchKinds : runNo = 0 /\ GrokSetupFails(kind) /\ GrokFrame
    \/ runNo = 0 /\ GrokEventsArrive /\ GrokFrame
    \/ runNo = 0 /\ GrokEventsFail /\ GrokFrame
    \/ runNo = 0 /\ GrokDivisionsArrive /\ GrokFrame
    \/ runNo = 0 /\ GrokDivisionsFail /\ GrokFrame
    \/ \E d \in GrokDivisionIds : runNo = 0 /\ GrokMatchesArrive(d) /\ GrokFrame
    \/ \E d \in GrokDivisionIds : runNo = 0 /\ GrokMatchesFail(d) /\ GrokFrame

InitPaceAll ==
    InitPace /\ PageIdle /\ MlIdle /\ BuildIdle /\ GrokIdle /\ FilterIdle /\ StreamIdle
        /\ UploadIdle
        /\ ExportIdle
InitRetryAll ==
    InitRetry /\ PageIdle /\ MlIdle /\ BuildIdle /\ GrokIdle /\ FilterIdle /\ StreamIdle
        /\ UploadIdle
        /\ ExportIdle
InitPageAll ==
    InitPage /\ PaceIdle /\ MlIdle /\ BuildIdle /\ GrokIdle /\ FilterIdle /\ StreamIdle
        /\ UploadIdle
        /\ ExportIdle
InitMapLimitAll ==
    InitMapLimit /\ PaceIdle /\ PageIdle /\ BuildIdle /\ GrokIdle /\ FilterIdle /\ StreamIdle
        /\ UploadIdle
        /\ ExportIdle
InitBuildAll ==
    InitBuild /\ PaceIdle /\ PageIdle /\ MlIdle /\ GrokIdle /\ FilterIdle /\ StreamIdle
        /\ UploadIdle
        /\ ExportIdle
InitGrokAll ==
    InitGrok /\ PaceIdle /\ PageIdle /\ MlIdle /\ BuildIdle /\ FilterIdle /\ StreamIdle
        /\ UploadIdle
        /\ ExportIdle
InitFilterAll ==
    InitFilter /\ PaceIdle /\ PageIdle /\ MlIdle /\ BuildIdle /\ GrokIdle /\ StreamIdle
        /\ UploadIdle
        /\ ExportIdle

InitGrokLongAll ==
    InitGrokLong /\ PaceIdle /\ PageIdle /\ MlIdle /\ BuildIdle /\ FilterIdle /\ StreamIdle
        /\ UploadIdle
        /\ ExportIdle

InitCrowdAll ==
    InitCrowd /\ PaceIdle /\ PageIdle /\ MlIdle /\ GrokIdle /\ FilterIdle /\ StreamIdle
        /\ UploadIdle
        /\ ExportIdle

InitStreamAll ==
    InitStream /\ PaceIdle /\ PageIdle /\ MlIdle /\ BuildIdle /\ GrokIdle /\ FilterIdle
        /\ UploadIdle
        /\ ExportIdle

InitRanksAll ==
    InitRanks /\ PaceIdle /\ PageIdle /\ MlIdle /\ BuildIdle /\ GrokIdle /\ StreamIdle
        /\ UploadIdle
        /\ ExportIdle

InitExportAll ==
    InitExport /\ PaceIdle /\ PageIdle /\ MlIdle /\ BuildIdle /\ GrokIdle /\ FilterIdle
        /\ UploadIdle
        /\ StreamIdle

InitUploadAll ==
    InitUpload /\ PaceIdle /\ PageIdle /\ MlIdle /\ BuildIdle /\ GrokIdle /\ FilterIdle
        /\ StreamIdle /\ ExportIdle

InitStreamFilesAll ==
    InitStreamFiles /\ PaceIdle /\ PageIdle /\ MlIdle /\ BuildIdle /\ GrokIdle /\ FilterIdle
        /\ UploadIdle
        /\ ExportIdle

\* apiFetch of build_ratings.js under concurrent callers.
SpecPace == InitPaceAll /\ [][PaceStep]_vars
\* apiFetch of build_ratings.js, one call.
SpecRetry == InitRetryAll /\ [][PaceStep]_vars
\* fetchAll of the three files.
SpecPage == InitPageAll /\ [][PageStep]_vars
\* One call of mapLimit of build_ratings.js.
SpecMapLimit == InitMapLimitAll /\ [][MapLimitStep]_vars
\* One call of mapLimit whose started invocations all complete: the promise of
\* a started fn settles, and its handler runs, in some later turn.
SpecMapLimitLive ==
    /\ InitMapLimitAll
    /\ [][MapLimitStep]_vars
    /\ WF_vars(MapLimitCall /\ MlFrame)
    /\ \A idx \in 0 .. MaxItems :
          WF_vars((TaskFulfils(idx) \/ TaskRejects(idx)) /\ MlFrame)
\* A run of build_ratings.js.
SpecBuild == InitBuildAll /\ [][BuildStep]_vars
\* One match record given to the validity filter of either file.
SpecFilter == InitFilterAll /\ [][FilterStep]_vars
\* One scored match given to the rating update of either file.
SpecRanks == InitRanksAll /\ [][FilterStep]_vars
\* A run of either rating builder, build_ratings.js or grok_build_ratings.js.
InitRaters == InitBuildAll \/ InitGrokAll
SpecRaters == InitRaters /\ [][RatersStep]_vars
\* apiFetch of export_matches.js and of skills_gen.js.
SpecExport == InitExportAll /\ [][ExportStep]_vars
\* The upload of the skills to Firestore, skills_gen.js and part_002.
SpecUpload == InitUploadAll /\ [][UploadStep]_vars
\* doMatch of build_ratings.js applied to a stream of matches.
SpecStream == InitStreamAll /\ [][StreamStep]_vars
\* The match loop of either rating builder applied to a stream of matches.
SpecStreamFiles == InitStreamFilesAll /\ [][StreamFilesStep]_vars
\* A run of grok_build_ratings.js.
SpecGrok == InitGrokAll /\ [][GrokStep]_vars
\* A run of grok_build_ratings.js over a season of more than BATCH_SIZE events.
SpecGrokLong == InitGrokLongAll /\ [][GrokStep]_vars
\* A run of build_ratings.js over a season of more than CONCURRENCY events.
SpecBuildCrowd == InitCrowdAll /\ [][BuildCrowdStep]_vars
\* A run of build_ratings.js, and a second run against the same data.
SpecBuildTwice == InitBuildAll /\ [][BuildTwiceStep]_vars

(***************************************************************************)
(* Claims about apiFetch of build_ratings.js                               *)
(***************************************************************************)

\* C1: any two outbound requests, first attempts or retries, of the same or of
\* different callers, start at least MIN_SPACING ms apart.
C1_MinSpacingBetweenRequests ==
    \A i, j \in DOMAIN sent :
        i < j => sent[j].at - sent[i].at >= MIN_SPACING

\* C7: k retryable failures followed by a success give the success payload
\* after exactly k+1 requests when k <= MAX_RETRIES; when the server keeps
\* failing, the call fails after exactly MAX_RETRIES+1 requests.
C7_RetryCount ==
    \A c \in Callers :
        LET a == answers[c]
            n == Len(a)
            k == LeadingRetryable(a)
        IN  /\ Requests(c) <= MAX_RETRIES + 1
            /\ (k < n /\ a[k + 1] = 200) =>
                   /\ k <= MAX_RETRIES
                   /\ n = k + 1
                   /\ pc[c] = "returned"
                   /\ result[c] = [body |-> k + 1]
                   /\ Requests(c) = k + 1
            /\ (k = n /\ k > MAX_RETRIES) =>
                   /\ pc[c] = "failed"
                   /\ Requests(c) = MAX_RETRIES + 1
            /\ (k = n /\ pc[c] = "failed") => Requests(c) = MAX_RETRIES + 1
            /\ (k = n) => pc[c] # "returned"

\* C7 witness: [429, 429, 200] under a cap of at least 2 returned the payload
\* of the third request.
C7_Witness ==
    \E c \in Callers :
        /\ MAX_RETRIES >= 2
        /\ answers[c] = <<429, 429, 200>>
        /\ pc[c] = "returned"
        /\ result[c] = [body |-> 3]
        /\ Requests(c) = 3

\* C8: a non-success status other than 429 or >= 500 fails the call at once:
\* it is the last answer of the call, which made one request for it and
\* neither backs off nor retries.
C8_FatalStatusFailsAtOnce ==
    \A c \in Callers :
        \A i \in DOMAIN answers[c] :
            LET status == answers[c][i] IN
            (~Ok(status) /\ status # 429 /\ status < 500) =>
                /\ i = Len(answers[c])
                /\ pc[c] = "failed"
                /\ result[c] = [error |-> status]
                /\ Requests(c) = i

\* C8 witness: a 404 answered after a retried 429 has failed the call.
C8_Witness ==
    \E c \in Callers :
        /\ answers[c] = <<429, 404>>
        /\ pc[c] = "failed"
        /\ Requests(c) = 2

(***************************************************************************)
(* Claims about fetchAll                                                   *)
(***************************************************************************)

\* C9: against a collection of L pages, fetchAll of build_ratings.js requests
\* the pages 1..L in that order, nothing more, and returns the concatenation
\* of the pages' data in page order, duplicates kept.
C9_PagesInOrder ==
    (variant = "build_ratings") =>
        /\ Len(requested) <= Len(pages)
        /\ \A i \in DOMAIN requested : requested[i] = i
        /\ (faPc = "returned") =>
              /\ Len(requested) = Len(pages)
              /\ returned = [value |-> Concat(pages)]

\* C9 witness: a three-page collection with a repeated item was returned whole.
C9_Witness ==
    /\ variant = "build_ratings"
    /\ Len(pages) = 3
    /\ pages[1] = pages[3] /\ pages[1] # <<>> /\ pages[2] # pages[1]
    /\ faPc = "returned"
    /\ requested = <<1, 2, 3>>
    /\ Len(returned.value) = Len(pages[1]) + Len(pages[2]) + Len(pages[3])

\* C10: in every variant, a response without pagination metadata ends the
\* pagination without error: no further request, the data so far returned.
C10_NoMetaIsLastPage ==
    (noMetaPage # 0 /\ Len(requested) >= noMetaPage /\ faPc # "awaiting") =>
        /\ faPc \in {"throttle", "returned"}
        /\ Len(requested) = noMetaPage
        /\ (faPc = "returned") =>
              returned = [value |-> Concat(SubSeq(pages, 1, noMetaPage))]

\* C11: when a page request inside fetchAll fails, fetchAll fails with that
\* same error, requests no further page, does not request the failed page
\* again, and returns no partial list.
C11_PageFailurePropagates ==
    /\ [](apiError # Undefined =>
            /\ faPc = "failed"
            /\ returned = [error |-> apiError]
            /\ Len(requested) = page
            /\ \A i \in DOMAIN requested : requested[i] = i)
    /\ [][apiError # Undefined => (requested' = requested /\ returned' = returned)]_vars

\* C11 witness: the second page of build_ratings.js fetchAll failed with a
\* server error after a first page with records had been collected.
C11_Witness ==
    /\ variant = "build_ratings"
    /\ apiError = "API 503"
    /\ requested = <<1, 2>>
    /\ out # <<>>
    /\ faPc = "failed"

(***************************************************************************)
(* Claims about mapLimit                                                   *)
(***************************************************************************)

\* C6: the fn invocations started and not yet completed never exceed limit,
\* and after the first launch a further element is started only in a step in
\* which a running invocation completes.
C6_AtMostLimitRunning ==
    /\ [](Cardinality(Running) <= limit /\ active <= limit)
    /\ [][(nextIdx' > nextIdx /\ settled # "idle") =>
            \E idx \in Running : task'[idx] = "fulfilled"]_vars

\* C6 witness: limit invocations are running, an element is still queued behind
\* them, and an earlier one has completed.
C6_Witness ==
    /\ limit >= 1
    /\ Cardinality(Running) = limit
    /\ nextIdx < ArrLen
    /\ \E idx \in DOMAIN task : task[idx] = "fulfilled"

\* C31: mapLimit starts fn on the elements in index order, once per element,
\* and when every invocation succeeds it resolves only after all of them have
\* completed, with ret[i] the value produced for element i, whatever the order
\* of completion.
C31_StartedInOrderResultsByIndex ==
    /\ \A k \in DOMAIN called : called[k] = k - 1
    /\ Len(called) = nextIdx
    /\ \A idx \in DOMAIN task : task[idx] # "queued" <=> idx < nextIdx
    /\ \A idx \in DOMAIN ret :
          /\ idx \in DOMAIN task
          /\ task[idx] = "fulfilled"
          /\ ret[idx] = FnValue(arr[idx])
    /\ (settled = "resolved") =>
          /\ \A idx \in DOMAIN task : task[idx] = "fulfilled"
          /\ DOMAIN ret = DOMAIN arr

\* C31 witness: under a limit of 2 the second of four elements completed
\* first: its value is in slot 1 of ret while element 0 is still running, and
\* element 2 has been started in its place.
C31_Witness ==
    /\ limit = 2
    /\ ArrLen = 4
    /\ called = <<0, 1, 2>>
    /\ task[0] = "running"
    /\ DOMAIN ret = {1}
    /\ ret[1] = FnValue(arr[1])

\* C32: whenever limit >= 1 and every fn invocation completes, mapLimit
\* settles: it resolves unless an invocation has failed, for the empty array as
\* for any other, and no element is left unstarted forever.
C32_MapLimitEventuallyResolves ==
    (limit >= 1) ~>
        \/ settled = "resolved" /\ nextIdx = ArrLen
        \/ \E idx \in DOMAIN task : task[idx] = "rejected"

\* C32 witness: a call with limit 1 over the longest array has resolved, every
\* element started and fulfilled.
C32_Witness ==
    /\ limit = 1
    /\ ArrLen = MaxItems
    /\ settled = "resolved"
    /\ nextIdx = ArrLen
    /\ \A idx \in DOMAIN task : task[idx] = "fulfilled"

(***************************************************************************)
(* Claims about the harvest of build_ratings.js                            *)
(***************************************************************************)

\* C3: two runs against the same remote data apply the same matches in the
\* same order and end with the same ratings, whatever the order in which the
\* concurrent event and division fetches complete.
C3_SameOrderInEveryRun ==
    (runNo = 2 /\ run.main = "done") =>
        /\ run.applied = prev.applied
        /\ run.ratings = prev.ratings

\* ---- grok_build_ratings.js: the order of rating ---------------------------

\* a is not after b by scheduled time, then round, then match number.
NotAfter(a, b) ==
    \/ a.scheduled < b.scheduled
    \/ a.scheduled = b.scheduled /\ a.round < b.round
    \/ a.scheduled = b.scheduled /\ a.round = b.round /\ a.matchnum <= b.matchnum

\* The scheduled times of a list never go down.
TimeAscending(ms) ==
    \A i, j \in DOMAIN ms : i < j => ms[i].scheduled <= ms[j].scheduled

\* Claim C2: in rateSeason of grok_build_ratings.js the matches of a season
\* are applied to the ratings in non-decreasing order of scheduled time, round
\* and then match number breaking ties.
C2_SeasonAppliedInTimeOrder ==
    \A i, j \in DOMAIN g.applied :
        (i < j /\ g.applied[i].season = g.applied[j].season)
            => NotAfter(g.applied[i], g.applied[j])

\* Claim C4: when an event has two divisions whose match lists are each sorted
\* by time but interleave, allMatches of the event is one sequence ascending in
\* scheduled time.
C4_MergedDivisionsAscending ==
    (/\ Len(g.divisionMatches) = 2
     /\ TimeAscending(g.divisionMatches[1])
     /\ TimeAscending(g.divisionMatches[2])
     /\ \E a \in DOMAIN g.divisionMatches[1] : \E b \in DOMAIN g.divisionMatches[2] :
            g.divisionMatches[2][b].scheduled < g.divisionMatches[1][a].scheduled)
        => TimeAscending(g.allMatches)

\* Claim C5: in every reachable state of a run of grok_build_ratings.js the
\* history of each competitor in teamHistory has non-decreasing scheduled
\* timestamps.
C5_HistoryTimestampsAscending ==
    \A n \in DOMAIN g.teamHistory : TimeAscending(g.teamHistory[n])

(***************************************************************************)
(* Claims about the validity filter                                        *)
(***************************************************************************)

\* The number of team entries of a side that carry a team link.
LinkCount(alliance) ==
    Cardinality({i \in DOMAIN alliance.teams : alliance.teams[i] # NoLink})

\* A side is missing, or a side has not exactly two linked teams.
NotRatable(m) ==
    \/ ~m.red.present
    \/ ~m.blue.present
    \/ LinkCount(m.red) # 2
    \/ LinkCount(m.blue) # 2

\* C12: a match that lacks a red or a blue alliance, or in which a side has
\* not exactly two teams carrying a team link, is not passed to the rating
\* update: every belief, the count of rated matches and (in
\* grok_build_ratings.js) every history are as they were before.
C12_InvalidMatchChangesNothing ==
    (vfPc \in {"build_ratings", "grok_build_ratings"} /\ NotRatable(vfMatch)) =>
        /\ vfRun.ratings = vfRun0.ratings
        /\ vfRun.applied = vfRun0.applied
        /\ vfRun.stats.rated = vfRun0.stats.rated
        /\ vfG.teamRatings = vfG0.teamRatings
        /\ vfG.teamHistory = vfG0.teamHistory
        /\ vfG.applied = vfG0.applied
        /\ vfG.processedMatches = vfG0.processedMatches

\* C12 witness: with beliefs and histories in place, grok_build_ratings.js was
\* given a match whose red side has three linked teams and left the
\* histories as they were.
C12_Witness ==
    /\ vfPc = "grok_build_ratings"
    /\ vfMatch.red.present /\ vfMatch.blue.present
    /\ LinkCount(vfMatch.red) = 3 /\ LinkCount(vfMatch.blue) = 2
    /\ DOMAIN vfG0.teamHistory # {}
    /\ vfG.teamHistory = vfG0.teamHistory

(***************************************************************************)
(* Claims about a run of build_ratings.js                                  *)
(***************************************************************************)

\* The match records the remote service holds for the wanted seasons.
FetchedMatches ==
    UNION {{MatchesOf(ed[1], ed[2])[k] : k \in DOMAIN MatchesOf(ed[1], ed[2])} :
              ed \in {x \in AllDivs : x[2] <= world.nDiv[x[1]]}}

\* Those of them that pass the validity filter.
RatableIds == {m.id : m \in {x \in FetchedMatches : ~NotRatable(x)}}

\* C13: in build_ratings.js no match is applied twice, and when every fetch
\* has succeeded and the run is over, each fetched match that passes the
\* validity filter has been applied exactly once, so that stats.rated is the
\* number of valid fetched matches, whatever the interleaving of the event and
\* division branches.
C13_EachValidMatchOnce ==
    /\ \A i, j \in DOMAIN run.applied : i # j => run.applied[i] # run.applied[j]
    /\ {run.applied[i] : i \in DOMAIN run.applied} \subseteq RatableIds
    /\ run.stats.rated = Len(run.applied)
    /\ (run.main = "done") =>
          /\ {run.applied[i] : i \in DOMAIN run.applied} = RatableIds
          /\ run.stats.rated = Cardinality(RatableIds)
          /\ run.stats.matches = Cardinality(FetchedMatches)

\* C13 witness: a finished run over two seasons, with an event of two
\* divisions, that rated at least three matches and skipped at least one.
C13_Witness ==
    /\ run.main = "done"
    /\ world.nDiv[11] = 2
    /\ world.nEv[197] = 1
    /\ run.stats.rated >= 3
    /\ run.stats.matches > run.stats.rated

\* C15: in build_ratings.js, when the fetch for one event (its divisions) or
\* for one division (its matches) fails for good, the branch is abandoned and
\* the run goes on: it is still rating, or it has written ratings.json.
C15_FailedBranchIsAbandoned ==
    (run.failed \in {"divisions", "matches"}) => run.main \in {"rating", "done"}

\* C18: in both rating builders a run that rated no match at all ends with a
\* fatal error and writes no output.
C18_NoMatchRatedIsFatal ==
    /\ (run.main = "done" /\ run.stats.rated = 0) => ~run.written
    /\ (g.main \in {"done", "failed"} /\ g.applied = <<>>) => (g.main = "failed" /\ ~g.written)

(***************************************************************************)
(* Claims about both rating builders                                       *)
(***************************************************************************)

\* The season of the match of build_ratings.js with the given id.
BuildSeason(id) == SeasonOf(id \div 100)

\* b is a with further updates appended.
Extends(b, a) == Len(a) <= Len(b) /\ SubSeq(b, 1, Len(a)) = a

\* The ids of the matches the remote service holds for the events of season s
\* that pass the validity filter.
GrokRatableIds(s) ==
    LET events == GrokEventsOf(s)
        ListOf(e, d) == {GrokMatchesOf(e, d)[k] : k \in 1 .. GrokMatchCount(e, d)}
        Ratable(e) ==
            UNION {{m.id : m \in {x \in ListOf(e, d) : ~NotRatable(x)}} :
                      d \in 1 .. gworld.nDiv[e]}
    IN UNION {Ratable(events[i].id) : i \in DOMAIN events}

\* C14: seasons are rated one at a time in ascending order of season id: the
\* applied matches never go back to an earlier season; once a match of a
\* later season is applied, every valid match of the earlier selected seasons
\* has been applied, in build_ratings.js and in grok_build_ratings.js; and no
\* belief is ever reset: every step of a run leaves each belief as it was or
\* appends updates to it, also across the season boundary.
C14_SeasonsInOrderBeliefsCarryOver ==
    /\ [](/\ \A i \in 1 .. Len(run.applied) - 1 :
                BuildSeason(run.applied[i]) <= BuildSeason(run.applied[i + 1])
          /\ (run.applied # <<>> /\ BuildSeason(run.applied[Len(run.applied)]) > Wanted[1]) =>
                LET latest == BuildSeason(run.applied[Len(run.applied)])
                    seen == {run.applied[i] : i \in DOMAIN run.applied}
                IN \A id \in RatableIds : BuildSeason(id) < latest => id \in seen
          /\ \A i \in 1 .. Len(g.applied) - 1 : g.applied[i].season <= g.applied[i + 1].season
          /\ \A i \in DOMAIN g.applied :
                g.sIdx >= 1 /\ g.applied[i].season <= SeasonsToRate[g.sIdx].id
          /\ \A i \in DOMAIN g.applied : \A k \in DOMAIN SeasonsToRate :
                SeasonsToRate[k].id < g.applied[i].season =>
                    GrokRatableIds(SeasonsToRate[k].id) \subseteq
                        {g.applied[j].id : j \in 1 .. i})
    /\ [][/\ \A n \in DOMAIN run.ratings :
                n \in DOMAIN run'.ratings /\ Extends(run'.ratings[n], run.ratings[n])
          /\ \A n \in DOMAIN g.teamRatings :
                n \in DOMAIN g'.teamRatings /\ Extends(g'.teamRatings[n], g.teamRatings[n])]_vars

(***************************************************************************)
(* Claims about the failures of grok_build_ratings.js                      *)
(***************************************************************************)

\* C16: in rateSeason a failed fetch for one event, of its division list or of
\* the matches of one of its divisions, costs only that event: no later event
\* of the season is left unfetched.
C16_FailedEventCostsOnlyItself ==
    (g.failed \in {"divisions", "matches"}) => g.skipped = {}

\* C17: the run of grok_build_ratings.js fails only when the season discovery
\* fails (the token check and /seasons, with the search for High Stakes) or
\* when no match was rated in any selected season; a failed fetch of an event
\* list, a division list or a match list, in the estimate as in the rating,
\* never fails it.
C17_OnlyDiscoveryOrNoMatchIsFatal ==
    (g.main = "failed") =>
        \/ g.fatal = "fetch" /\ g.failed \in {"token", "seasons"}
        \/ g.fatal = "High Stakes season not found"
        \/ g.fatal = "No scored matches found"

(***************************************************************************)
(* Claims about the histories of grok_build_ratings.js                     *)
(***************************************************************************)

\* C19: after every applied match the belief of each competitor in teamRatings
\* is the belief of the last snapshot of its history, and a competitor without
\* snapshot enters its first match with the prior: its first snapshot is the
\* prior updated with that match alone, every later one the snapshot before it
\* updated with one more match.
C19_BeliefIsLastSnapshot ==
    /\ DOMAIN g.teamRatings = DOMAIN g.teamHistory
    /\ \A n \in DOMAIN g.teamHistory :
          LET hist == g.teamHistory[n] IN
          /\ hist # <<>>
          /\ g.teamRatings[n] = hist[Len(hist)].belief
          /\ \A k \in DOMAIN hist :
                LET before == IF k = 1 THEN NewRating ELSE hist[k - 1].belief IN
                /\ Len(hist[k].belief) = Len(before) + 1
                /\ SubSeq(hist[k].belief, 1, Len(before)) = before
                /\ hist[k].belief[Len(before) + 1].match = hist[k].match_id

\* C19 witness: a team that had no snapshot before its first match has been
\* rated in a second match, in another event.
C19_Witness ==
    \E n \in DOMAIN g.teamHistory :
        /\ Len(g.teamHistory[n]) >= 2
        /\ g.teamHistory[n][1].match_id \div 100 # g.teamHistory[n][2].match_id \div 100
        /\ g.teamRatings[n] = g.teamHistory[n][Len(g.teamHistory[n])].belief

\* C20: applying a valid match appends exactly one snapshot to the history of
\* each of its four participants, tagged with the id and the scheduled time of
\* the match and holding the new belief: the history of a competitor is, match
\* for match, the list of the valid matches it has played so far.
C20_OneSnapshotPerMatchPlayed ==
    /\ \A i \in DOMAIN g.applied :
          /\ Cardinality(g.applied[i].teams) = 4
          /\ g.applied[i].teams \subseteq DOMAIN g.teamHistory
    /\ \A n \in DOMAIN g.teamHistory :
          LET played == SelectSeq(g.applied, LAMBDA a : n \in a.teams)
              hist == g.teamHistory[n]
          IN /\ Len(hist) = Len(played)
             /\ \A k \in DOMAIN hist :
                   /\ hist[k].match_id = played[k].id
                   /\ hist[k].scheduled = played[k].scheduled
                   /\ hist[k].belief[Len(hist[k].belief)].match = played[k].id

\* C20 witness: a team has played two valid matches of one division and its
\* history holds the two snapshots, with two scheduled times.
C20_Witness ==
    \E n \in DOMAIN g.teamHistory :
        /\ Len(g.teamHistory[n]) = 2
        /\ g.teamHistory[n][1].match_id \div 10 = g.teamHistory[n][2].match_id \div 10
        /\ g.teamHistory[n][1].scheduled # g.teamHistory[n][2].scheduled

\* C21: every fraction current / total handed to renderProgress lies between
\* 0 and 1: the total is a positive number and the current count, the offset
\* of the season plus the matches processed in it, does not exceed it.
C21_ProgressFractionInUnitInterval ==
    g.rendered.calls # 0 =>
        /\ Finite(g.rendered.total)
        /\ Less(Double(0), g.rendered.total)
        /\ g.rendered.current >= 0
        /\ ~Less(g.rendered.total, Double(g.rendered.current))

\* C22: the wait before the retry that follows failed attempt a is the
\* retry-after value in seconds times 1000 ms when the response carries the
\* header, and BASE_DELAY * 2^a ms otherwise.
C22_BackoffIsRetryAfterOrExponential ==
    \A c \in Callers :
        pc[c] = "backoff" =>
            /\ backoff[c].attempt = attempt[c]
            /\ wakeAt[c] - backoff[c].ms <= now
            /\ backoff[c].ms = IF backoff[c].header # <<>>
                               THEN backoff[c].header[1] * 1000
                               ELSE BASE_DELAY * Pow2(attempt[c])

\* The beliefs of two teams that have each played one match, the same one,
\* which the first lost to the second: both started from the prior, the
\* winner's mean went up and the loser's down by the same update, so the
\* loser's mu - 3*sigma is the lower one.
LostTo(a, b) ==
    /\ Len(a) = 1 /\ Len(b) = 1
    /\ a[1].match = b[1].match
    /\ a[1].rank > b[1].rank

\* C23: the teams mapping written by build_ratings.js lists the teams in rank
\* order, by descending mu - 3*sigma: no team stands before a team that
\* outranks it.
C23_TeamsWrittenInRankOrder ==
    run.written =>
        \A i, j \in DOMAIN run.teams :
            i < j => ~LostTo(run.ratings[run.teams[i]], run.ratings[run.teams[j]])

\* env.rate of ts-trueskill ranks the side with the lower rank first and moves
\* the mean of a belief up with a win and down with a loss: a belief whose
\* updates are all wins has a mean above the prior mean, one whose updates are
\* all losses a mean below it.
MeanAbovePrior(belief) ==
    /\ belief # NewRating
    /\ \A i \in DOMAIN belief : belief[i].rank < belief[i].vs

MeanBelowPrior(belief) ==
    /\ belief # NewRating
    /\ \A i \in DOMAIN belief : belief[i].rank > belief[i].vs

\* A beats B, C beats D, A beats C.
ThreeMatches ==
    <<[red |-> <<"A">>, blue |-> <<"B">>, score |-> 2],
      [red |-> <<"C">>, blue |-> <<"D">>, score |-> 2],
      [red |-> <<"A">>, blue |-> <<"C">>, score |-> 2]>>

\* C24: after the stream [A beats B, C beats D, A beats C] has been applied
\* from fresh priors, the mean of A is above the prior mean and the mean of B
\* is below it.
C24_WinnerAboveLoserBelowPrior ==
    (Len(stream) >= 3 /\ SubSeq(stream, 1, 3) = ThreeMatches /\ streamPos = 4) =>
        /\ <<"A">> \in DOMAIN streamRun.ratings /\ <<"B">> \in DOMAIN streamRun.ratings
        /\ MeanAbovePrior(streamRun.ratings[<<"A">>])
        /\ MeanBelowPrior(streamRun.ratings[<<"B">>])

\* C24 witness: the three matches have been applied: A holds two updates, B
\* one, and three matches were rated.
C24_Witness ==
    /\ stream = ThreeMatches
    /\ streamPos = 4
    /\ Len(streamRun.ratings[<<"A">>]) = 2
    /\ Len(streamRun.ratings[<<"B">>]) = 1
    /\ streamRun.stats.rated = 3

(***************************************************************************)
(* Claims about the seasons of grok_build_ratings.js                       *)
(***************************************************************************)

\* C25: in grok_build_ratings.js, when every fetch succeeds, every fetched
\* match that passes the validity filter has been applied, once, by the end of
\* the run: the progress report never cuts the rating of a season short.
C25_SeasonRatedWholeWhenFetchesSucceed ==
    (g.main \in {"done", "failed"} /\ g.failed = "none" /\ g.sIdx > 0) =>
        /\ \A i, j \in DOMAIN g.applied : i # j => g.applied[i].id # g.applied[j].id
        /\ \A k \in DOMAIN SeasonsToRate :
              GrokRatableIds(SeasonsToRate[k].id) \subseteq
                  {g.applied[i].id : i \in DOMAIN g.applied}

\* C26: in computeTrueSkills a season whose rating fails is skipped as a
\* whole: none of its matches is among the applied ones, so none contributes
\* to the beliefs and the histories, and the later seasons are still rated.
C26_FailedSeasonContributesNothing ==
    /\ \A i \in DOMAIN g.applied : g.applied[i].season \notin g.threw
    /\ (g.threw # {} /\ g.main = "failed") => g.fatal \in {"No scored matches found", "write"}

(***************************************************************************)
(* Claims about the order and the number of the branches of build_ratings  *)
(***************************************************************************)

\* C27: mapLimit calls fn on the elements in the order of the array, for
\* every limit of at least 1 and every order in which the calls complete;
\* doMatch does all its work when it is called, so the matches of a division
\* are applied in the order of the fetched list.
C27_MatchesAppliedInListOrder ==
    /\ called = [k \in 1 .. nextIdx |-> k - 1]
    /\ (limit >= 1 /\ settled = "resolved") => Len(called) = ArrLen

\* C27 witness: under a limit of 2 the four elements have been handed out in
\* order although the second call completed while the first was running.
C27_Witness ==
    /\ limit = 2
    /\ called = <<0, 1, 2, 3>>
    /\ task[0] = "running"
    /\ task[1] = "fulfilled"

\* The division of the match with the given id, and its event.
DivisionOfId(id) == (id \div 10) % 10
EventOfId(id) == id \div 100

\* a comes before b in the order of an event: the division the service lists
\* first, and within a division ascending (round, matchnum).
BeforeInEvent(a, b) ==
    \/ DivisionOfId(a.id) < DivisionOfId(b.id)
    \/ DivisionOfId(a.id) = DivisionOfId(b.id) /\ RoundThenNumber(a, b) < 0

\* C28: in rateSeason the matches of an event are rated in an order that does
\* not depend on the order in which the parallel division fetches complete:
\* the divisions in the order the service lists them, the matches of each
\* division in ascending (round, matchnum).
C28_EventOrderIndependentOfCompletion ==
    /\ \A i \in 1 .. Len(g.allMatches) - 1 :
          BeforeInEvent(g.allMatches[i], g.allMatches[i + 1])
    /\ \A i \in 1 .. Len(g.applied) - 1 :
          EventOfId(g.applied[i].id) = EventOfId(g.applied[i + 1].id) =>
              BeforeInEvent(g.applied[i], g.applied[i + 1])

\* C28 witness: the matches of division 2 arrived before those of division 1,
\* and the event has been rated: two matches of division 1, then one of
\* division 2.
C28_Witness ==
    /\ g.lastArrived = 1
    /\ g.pending = {}
    /\ Len(g.applied) >= 3
    /\ LET n == Len(g.applied) IN
       /\ DivisionOfId(g.applied[n].id) = 2
       /\ DivisionOfId(g.applied[n - 1].id) = 1
       /\ DivisionOfId(g.applied[n - 2].id) = 1
       /\ EventOfId(g.applied[n - 2].id) = EventOfId(g.applied[n].id)
       /\ g.applied[n - 2].matchnum < g.applied[n - 1].matchnum

\* C33: once main has reset the counters, total never decreases and
\* 0 <= done <= total holds in every state and at every draw() in between, so
\* no reported fraction done/total exceeds 1 as new work is discovered.
C33_DoneNeverExceedsTotal ==
    /\ [](run.main # "seasons" =>
             /\ 0 <= run.done
             /\ run.done <= run.total
             /\ ~run.over)
    /\ [][(run.main # "seasons" /\ run'.main # "seasons") => run'.total >= run.total]_vars

\* C33 witness: work has been ticked, and the matches of a division that has
\* some are still being fetched: the total is about to grow.
C33_Witness ==
    /\ run.main = "rating"
    /\ run.done >= 2
    /\ run.done < run.total
    /\ \E ed \in DOMAIN run.dvPc :
          run.dvPc[ed] = "matches" /\ MatchCount(ed[1], ed[2]) > 0

\* C34: when a run of build_ratings.js completes, done equals total: every
\* event and every fetched match, rated or discarded by the validity filter,
\* has been ticked once, and stats.matches is the number of rated plus the
\* number of discarded matches.
C34_CompletedRunTickedEverything ==
    (run.main = "done") =>
        LET events == world.nEv[190] + world.nEv[197]
            discarded == Cardinality({m \in FetchedMatches : NotRatable(m)})
        IN /\ run.done = run.total
           /\ run.total = events + Cardinality(FetchedMatches)
           /\ run.stats.events = events
           /\ run.stats.matches = run.stats.rated + discarded
           /\ run.stats.rated = Len(run.applied)

\* C34 witness: a completed run with an event without divisions, a rated and
\* a discarded match.
C34_Witness ==
    /\ run.main = "done"
    /\ run.stats.eventsNoDiv >= 1
    /\ run.stats.rated >= 1
    /\ run.stats.matches > run.stats.rated
    /\ run.done = run.total

\* The HTTP requests of build_ratings.js that are outstanding: the fetch of
\* the seasons, of the events of a season, of the divisions of each started
\* event, of the matches of each started division.
Outstanding ==
    IF run.main = "seasons" THEN 1
    ELSE IF run.main # "rating" THEN 0
    ELSE (IF run.sPc = "events" THEN 1 ELSE 0)
         + Cardinality({e \in DOMAIN run.evPc : run.evPc[e] = "divisions"})
         + Cardinality({ed \in DOMAIN run.dvPc : run.dvPc[ed] = "matches"})

\* C29: in build_ratings.js at most CONCURRENCY * CONCURRENCY HTTP requests
\* are outstanding in any reachable state, whatever the number of events and
\* of divisions: at most CONCURRENCY events are in progress, each with its
\* division list or with at most CONCURRENCY match lists being fetched.
C29_OutstandingAtMostConcurrencySquared ==
    /\ Outstanding <= CONCURRENCY * CONCURRENCY
    /\ Cardinality({e \in DOMAIN run.evPc : run.evPc[e] \in {"divisions", "mapping"}})
           <= CONCURRENCY
    /\ \A e \in DOMAIN run.evPc :
          Cardinality({ed \in DOMAIN run.dvPc : ed[1] = e /\ run.dvPc[ed] = "matches"})
              <= CONCURRENCY

\* C29 witness: CONCURRENCY * CONCURRENCY requests are outstanding while an
\* event and a division of a started event wait for a free slot.
C29_Witness ==
    /\ Outstanding = CONCURRENCY * CONCURRENCY
    /\ \E e \in DOMAIN run.evPc : run.evPc[e] = "queued" /\ world.nDiv[e] > 0
    /\ \E ed \in DOMAIN run.dvPc :
          /\ run.evPc[ed[1]] = "mapping"
          /\ ed[2] <= world.nDiv[ed[1]]
          /\ run.dvPc[ed] = "queued"

\* C30: in rateSeason the number of match-list fetches of the divisions of one
\* event that are in flight at the same time never exceeds BATCH_SIZE.
C30_DivisionFetchesAtMostBatchSize ==
    Cardinality(g.pending) <= BATCH_SIZE

(***************************************************************************)
(* Claims about one match given to the match loop of either builder        *)
(***************************************************************************)

\* The events of the wanted seasons without divisions, and the divisions of
\* the wanted seasons without scored matches.
EmptyEvents ==
    {e \in AllEvents : e % 10 <= world.nEv[SeasonOf(e)] /\ world.nDiv[e] = 0}
EmptyDivisions ==
    {ed \in AllDivs : ed[2] <= world.nDiv[ed[1]] /\ MatchCount(ed[1], ed[2]) = 0}

\* The turn in which doEvent finds no divisions, or doDivision no matches,
\* and returns.
EmptyEventTurn(e) ==
    run.main = "rating" /\ run.evPc[e] = "divisions" /\ world.nDiv[e] = 0
        /\ run'.evPc[e] = "done"
EmptyDivisionTurn(ed) ==
    run.main = "rating" /\ run.dvPc[ed] = "matches" /\ MatchCount(ed[1], ed[2]) = 0
        /\ run'.dvPc[ed] = "done"

\* The turn raises no error and changes no rating.
HarmlessTurn ==
    /\ run'.main \in {"rating", "writing"} /\ run'.failed = "none"
    /\ run'.ratings = run.ratings /\ run'.applied = run.applied
    /\ run'.keys = run.keys /\ run'.stats.rated = run.stats.rated

\* The other events and divisions go on: none is set back or dropped, a
\* queued one may be started.
SiblingsGoOn(e, eds) ==
    /\ \A e2 \in AllEvents \ {e} :
          \/ run'.evPc[e2] = run.evPc[e2]
          \/ run.evPc[e2] = "queued" /\ run'.evPc[e2] = "divisions"
    /\ \A ed2 \in AllDivs \ eds :
          \/ run'.dvPc[ed2] = run.dvPc[ed2]
          \/ run.dvPc[ed2] = "queued" /\ run'.dvPc[ed2] = "matches"

\* The events of the season in progress other than e, and the divisions of
\* the event of ed other than ed.
OtherEvents(e) == {run.events[i] : i \in DOMAIN run.events} \ {e}
OtherDivisions(ed) == {<<ed[1], d>> : d \in 1 .. world.nDiv[ed[1]]} \ {ed}

\* C37: in build_ratings.js an event with zero divisions and a division
\* with zero scored matches raise no error (the run does not crash),
\* change no rating, and do not stop their sibling events and divisions:
\* in that turn no sibling is set back or dropped, the next queued sibling
\* is started, and when the empty one was the last of its list the list
\* completes (the next season starts or the output is written, the event is
\* ticked and fulfils);
\* a completed run has rated every ratable match of every other division.
C37_EmptyEventOrDivisionIsHarmless ==
    /\ [][/\ \A e \in AllEvents : EmptyEventTurn(e) =>
                /\ HarmlessTurn
                /\ run'.stats.eventsNoDiv = run.stats.eventsNoDiv + 1
                /\ SiblingsGoOn(e, {})
                /\ run.eNext < Len(run.events) =>
                       run'.evPc[run.events[run.eNext + 1]] = "divisions"
                /\ (\A e2 \in OtherEvents(e) : run.evPc[e2] = "done") =>
                       run'.main = "writing" \/ run'.sIdx = run.sIdx + 1
          /\ \A ed \in AllDivs : EmptyDivisionTurn(ed) =>
                /\ HarmlessTurn
                /\ run'.stats.divNoMatch = run.stats.divNoMatch + 1
                /\ SiblingsGoOn(ed[1], {ed})
                /\ run.dNext[ed[1]] < world.nDiv[ed[1]] =>
                       run'.dvPc[<<ed[1], run.dNext[ed[1]] + 1>>] = "matches"
                /\ (\A ed2 \in OtherDivisions(ed) : run.dvPc[ed2] = "done") =>
                       run'.evPc[ed[1]] = "done" /\ run'.done = run.done + 1]_vars
    /\ [](run.main = "done" =>
            /\ run.stats.eventsNoDiv = Cardinality(EmptyEvents)
            /\ run.stats.divNoMatch = Cardinality(EmptyDivisions)
            /\ {run.applied[i] : i \in DOMAIN run.applied} = RatableIds)

\* C37 witness: a completed run that met an event without divisions and a
\* division without matches, and rated the matches of a sibling division.
C37_Witness ==
    /\ run.main = "done" /\ run.failed = "none"
    /\ run.stats.eventsNoDiv >= 1
    /\ run.stats.divNoMatch >= 1
    /\ run.stats.rated >= 1
    /\ \E ed \in EmptyDivisions : \E ed2 \in AllDivs :
          ed2[1] = ed[1] /\ ed2 # ed /\ run.dvPc[ed2] = "done"
              /\ \E i \in DOMAIN run.applied : run.applied[i] \div 10 = ed2[1] * 10 + ed2[2]

\* The rank vector the probed file passed to env.rate, read off the updates
\* of a red team (A) and of a blue team (C).
RanksPassed ==
    LET store == IF vfPc = "build_ratings" THEN vfRun.ratings ELSE vfG.teamRatings
    IN <<store[<<"A">>][1].rank, store[<<"C">>][1].rank>>

\* C36: the rank vector passed to the rating update ranks the higher-scoring
\* alliance first (rank 0 before rank 1) and gives both alliances the same
\* rank when the scores are equal; with the scores of red and blue swapped
\* the two ranks are swapped, so a tie is treated symmetrically.
C36_RanksFollowScoresSymmetrically ==
    (vfPc \in {"build_ratings", "grok_build_ratings"}) =>
        LET red == vfMatch.red
            blue == vfMatch.blue
            swapped == Ranks([red EXCEPT !.score = blue.score],
                             [blue EXCEPT !.score = red.score])
        IN /\ RanksPassed = Ranks(red, blue)
           /\ red.score > blue.score => RanksPassed[1] < RanksPassed[2]
           /\ red.score < blue.score => RanksPassed[1] > RanksPassed[2]
           /\ red.score = blue.score => RanksPassed[1] = RanksPassed[2]
           /\ swapped = <<RanksPassed[2], RanksPassed[1]>>
           /\ vfPc = "build_ratings" => vfRun.ratings[<<"A">>][1].vs = RanksPassed[2]
           /\ vfPc = "grok_build_ratings" => vfG.teamRatings[<<"C">>][1].vs = RanksPassed[1]

\* C36 witness: grok_build_ratings.js rated a tie, 3 to 3, and gave red and
\* blue the same rank.
C36_Witness ==
    /\ vfPc = "grok_build_ratings"
    /\ vfMatch.red.score = 3 /\ vfMatch.blue.score = 3
    /\ vfG.teamRatings[<<"A">>][1].rank = vfG.teamRatings[<<"C">>][1].rank
    /\ vfG.teamRatings[<<"A">>][1].vs = vfG.teamRatings[<<"A">>][1].rank

\* The four teams of the next match of the stream.
Participants ==
    IF streamPos \in DOMAIN stream
    THEN {stream[streamPos].red, Partner(stream[streamPos].red),
          stream[streamPos].blue, Partner(stream[streamPos].blue)}
    ELSE {}

\* store is changed into after by a match of the given teams: no entry is
\* removed, the entries of the other teams are as they were, and the new
\* entries are entries of these teams.
OnlyTouches(store, after, teams) ==
    /\ DOMAIN store \subseteq DOMAIN after
    /\ DOMAIN after \ DOMAIN store \subseteq teams
    /\ \A n \in DOMAIN store : n \notin teams => after[n] = store[n]

\* C35: applying a match changes the beliefs, and in grok_build_ratings.js the
\* histories, of the participants of that match only: the entry of every other
\* competitor is unchanged and no competitor is removed from a store.
C35_MatchTouchesParticipantsOnly ==
    [][/\ OnlyTouches(streamRun.ratings, streamRun'.ratings, Participants)
       /\ OnlyTouches(streamG.teamRatings, streamG'.teamRatings, Participants)
       /\ OnlyTouches(streamG.teamHistory, streamG'.teamHistory, Participants)]_vars

\* C35 witness: grok_build_ratings.js has rated A against B and then C against
\* D: the histories of A and B hold the one snapshot of the first match.
C35_Witness ==
    /\ streamFile = "grok_build_ratings"
    /\ streamPos = 3
    /\ stream[1].red = <<"A">> /\ stream[1].blue = <<"B">>
    /\ stream[2].red = <<"C">> /\ stream[2].blue = <<"D">>
    /\ DOMAIN streamG.teamHistory = GrokTeams
    /\ Len(streamG.teamHistory[<<"A">>]) = 1
    /\ Len(streamG.teamHistory[<<"F">>]) = 1
    /\ streamG.teamRatings[<<"A">>] = streamG.teamHistory[<<"A">>][1].belief

(***************************************************************************)
(* Claims about apiFetch of export_matches.js and of skills_gen.js         *)
(***************************************************************************)

\* The status of the last response.
LastResponse == responses[Len(responses)]

\* C38: apiFetch of export_matches.js and of skills_gen.js retries a request
\* answered with a server error (5xx), up to its retry cap, in the same way
\* as one answered with a 429: it throws on a server error only when no
\* retry is left.
C38_ServerErrorRetriedLikeRateLimit ==
    (fetchPc = "thrown" /\ LastResponse >= 500) => retries = 0

(***************************************************************************)
(* Claims about the upload of the skills                                   *)
(***************************************************************************)

\* C39: in the skills uploaders no Firestore batch submitted for commit
\* ever holds more than 500 writes, including after an earlier commit has
\* succeeded or failed.
C39_SubmittedBatchAtMostLimit ==
    \A k \in DOMAIN up.submitted : up.submitted[k] <= 500

\* C39 witness: part_002 has submitted a batch after a commit that succeeded
\* and after a commit that failed: the first 500 teams were written, the
\* commit of the next 500 failed, and main has called commit() once more.
C39_Witness ==
    /\ uploadFile = "part_002"
    /\ up.updatedTeams = 500
    /\ up.failures >= 1
    /\ Len(up.submitted) >= 3

================================================================
